---- MODULE Spec2Model ----
(***************************************************************************)
(* Page Fetcher of the otto crawling pipeline: the circuit breaker         *)
(* (page_fetcher/circuit_breaker.py), Fetcher.process with its attempt     *)
(* loop (page_fetcher/fetcher.py) and the fetch loop of one worker         *)
(* (page_fetcher/main.py, _run), over the Redis-list queues of             *)
(* core/queue.py.                                                          *)
(*                                                                         *)
(* Durations are whole seconds.  Every GET and every probe is answered by  *)
(* the environment: the answer is chosen nondeterministically at the step  *)
(* that issues the request.                                                *)
(*                                                                         *)
(* Also the Redis rate limiter (page_fetcher/rate_limiter.py) and the loop *)
(* of the crawler scheduler (crawler_scheduler/main.py).                   *)
(*                                                                         *)
(* The specifications share the variables:                                 *)
(*   Spec           the fetch loop of one worker (_run);                   *)
(*   SpecBreaker    a CircuitBreaker object driven by arbitrary sequences  *)
(*                  of calls of its four methods, as its unit tests drive  *)
(*                  it;                                                    *)
(*   SpecTrip       the fetch loop over a queue of failure_threshold URLs  *)
(*                  that all fail site-wide;                               *)
(*   SpecLimiter    workers calling RateLimiter.acquire against one Redis; *)
(*   SpecScheduler  the scheduler loop between its two queues;             *)
(*   SpecSeeds      enqueue_seeds at the scheduler's startup;              *)
(*   SpecFaults     the fetch loop when a Redis or Kafka operation can     *)
(*                  raise;                                                 *)
(*   SpecSchedulerFaults  the scheduler loop when a Redis command can      *)
(*                  raise;                                                 *)
(*   SpecRobots     workers calling RobotsChecker.is_allowed over one      *)
(*                  Redis cache;                                           *)
(*   SpecWorkers    several fetch workers on the same queues and topic;    *)
(*   Spec5xx        the fetch loop, fairly scheduled, on one URL that the  *)
(*                  site answers with a 5xx status;                        *)
(*   SpecQueue      a RedisQueue driven by arbitrary calls of its methods; *)
(*   SpecCrawlerQueue  the scheduler process and a fetch worker on the     *)
(*                  crawler queue;                                         *)
(*   SpecPages      repeated successful fetches with the body, the cache   *)
(*                  key, the event and its message key.                    *)
(* The part of the state a specification does not use stays at rest.       *)
(***************************************************************************)
EXTENDS Integers, Sequences, FiniteSets, TLC

(***************************************************************************)
(* Bounds of the model.                                                    *)
(***************************************************************************)
MaxThreshold == 2       \* failure_threshold ranges over 1..MaxThreshold
MaxInitialBackoff == 2  \* initial_backoff_seconds ranges over 1..MaxInitialBackoff
MaxMaxBackoff == 3      \* max_backoff_seconds ranges over 1..MaxMaxBackoff
MaxMultiplier == 2      \* backoff_multiplier ranges over 1..MaxMultiplier
MaxRetries == 2         \* max_retries ranges over 0..MaxRetries
MaxTier == 3            \* failed probes are cut off once backoff_tier reaches it
MaxQueue == 2           \* length of the input queue at start
MaxCalls == 6           \* length of a call sequence under SpecBreaker
MaxClock == 4           \* SpecLimiter: the wall clock runs from 0 to MaxClock seconds
MaxGrants == 2          \* SpecLimiter: acquire calls made in a run
MaxQueueSize == 2       \* SpecScheduler: max_queue_size ranges over 1..MaxQueueSize
MaxSeeds == 3           \* SpecSeeds: length of the seed list

URLS == {"u1", "u2"}
NoUrl == "none"
StatusCodes == {200, 404, 500, 503}

VARIABLES
    circuit_breaker,      \* the worker's CircuitBreaker object
    fetcher,              \* the Fetcher's retry configuration
    input_queue,          \* Redis list config.input_queue, head first
    dlq,                  \* Redis list config.dlq_queue, head first
    webpage_log,          \* records sent to the event topic, in order
    cache,                \* URLs whose body is stored under webpage:{sha256(url)}
    shutdown_requested,   \* _shutdown_requested
    pc,                   \* position of the worker in _run / Fetcher.process
    url,                  \* the URL dequeued in this iteration
    result,               \* the ProcessResult of this iteration
    attempt,              \* loop variable of the attempt loop
    gets,                 \* answers to the GETs issued by the current process call
    retry_sleeps,         \* durations slept by the current process call before retries
    backoff_sleeps,       \* durations slept by wait_if_open since the breaker last closed
    calls,                \* SpecBreaker, SpecQueue: the method calls made so far
    clock,                \* wall clock, time.time(), in whole seconds
    rate_limiter,         \* the RateLimiter's _min_interval, _poll_interval, _ttl
    kv,                   \* the string keys of the Redis the limiter talks to
    acquiring,            \* per worker: its position inside RateLimiter.acquire
    grants,               \* the acquire calls that returned, in order of their check
    url_filter_output,    \* Redis list config.input_queue of the scheduler, head first
    scheduler,            \* the scheduler's position in its loop and its locals
    scheduler_config,     \* the scheduler's max_queue_size and which main.py runs
    acquires,             \* rate_limiter.acquire calls made by the current process call
    seeding,              \* enqueue_seeds: its arguments, locals and position
    robots_checker,       \* the RobotsChecker's _cache_ttl and whether a fetcher is set
    checking,             \* per worker: its position inside RobotsChecker.is_allowed
    robots_calls,         \* the is_allowed calls that returned, in order of return
    workers,              \* SpecWorkers: per worker, its position in _run and its locals
    dequeues,             \* SpecWorkers: the URLs dequeued so far, in order
    site,                 \* per URL, the text of the response the site gives to a GET
    cache_writes,         \* the cache.set calls of _do_fetch so far: key and body
    sent                  \* the producer.send calls of _do_fetch so far: event and key

fetch_vars == <<circuit_breaker, fetcher, input_queue, dlq, webpage_log, cache,
                shutdown_requested, pc, url, result, attempt, gets, retry_sleeps,
                backoff_sleeps, calls, acquires>>

limiter_vars == <<clock, rate_limiter, kv, acquiring, grants>>

scheduler_vars == <<url_filter_output, scheduler, scheduler_config>>

seeds_vars == <<seeding>>

robots_vars == <<robots_checker, checking, robots_calls>>

pool_vars == <<workers, dequeues>>

page_vars == <<site, cache_writes, sent>>

aux_vars == <<seeds_vars, robots_vars, pool_vars, page_vars>>

vars == <<fetch_vars, limiter_vars, scheduler_vars, aux_vars>>

worker_vars == <<fetcher, input_queue, dlq, webpage_log, cache,
                 shutdown_requested, pc, url, result, attempt, gets, retry_sleeps>>

(***************************************************************************)
(* Arithmetic of the source: Python's ** and min.                          *)
(***************************************************************************)
RECURSIVE Pow(_, _)
Pow(b, e) == IF e = 0 THEN 1 ELSE b * Pow(b, e - 1)

Min(a, b) == IF a <= b THEN a ELSE b

(***************************************************************************)
(* CircuitBreaker                                                          *)
(***************************************************************************)
CircuitBreaker(failure_threshold, initial_backoff_seconds, max_backoff_seconds, backoff_multiplier) ==
    [failure_threshold    |-> failure_threshold,
     initial_backoff      |-> initial_backoff_seconds,
     max_backoff          |-> max_backoff_seconds,
     backoff_multiplier   |-> backoff_multiplier,
     consecutive_failures |-> 0,
     state                |-> "closed",
     current_backoff      |-> initial_backoff_seconds,
     backoff_tier         |-> 0]

\* variant: closing leaves backoff_tier as it was
record_success_KeepsTier(cb) ==
    IF cb.state = "half_open"
    THEN [cb EXCEPT !.consecutive_failures = 0,
                    !.state = "closed",
                    !.current_backoff = cb.initial_backoff]
    ELSE [cb EXCEPT !.consecutive_failures = 0]

\* variant: closing leaves current_backoff as it was
record_success_KeepsBackoff(cb) ==
    IF cb.state = "half_open"
    THEN [cb EXCEPT !.consecutive_failures = 0,
                    !.state = "closed",
                    !.backoff_tier = 0]
    ELSE [cb EXCEPT !.consecutive_failures = 0]

record_success(cb) ==
    IF cb.state = "half_open"
    THEN [cb EXCEPT !.consecutive_failures = 0,
                    !.state = "closed",
                    !.current_backoff = cb.initial_backoff,
                    !.backoff_tier = 0]
    ELSE [cb EXCEPT !.consecutive_failures = 0]

\* variant: opens only when the counter exceeds the threshold
record_site_wide_failure_StrictThreshold(cb) ==
    IF cb.state = "closed" /\ cb.consecutive_failures + 1 > cb.failure_threshold
    THEN [cb EXCEPT !.consecutive_failures = cb.consecutive_failures + 1,
                    !.state = "open"]
    ELSE [cb EXCEPT !.consecutive_failures = cb.consecutive_failures + 1]

\* variant: failures are counted only while the breaker is closed
record_site_wide_failure_OnlyWhenClosed(cb) ==
    IF cb.state # "closed"
    THEN cb
    ELSE IF cb.consecutive_failures + 1 >= cb.failure_threshold
         THEN [cb EXCEPT !.consecutive_failures = cb.consecutive_failures + 1,
                         !.state = "open"]
         ELSE [cb EXCEPT !.consecutive_failures = cb.consecutive_failures + 1]

record_site_wide_failure(cb) ==
    IF cb.state = "closed" /\ cb.consecutive_failures + 1 >= cb.failure_threshold
    THEN [cb EXCEPT !.consecutive_failures = cb.consecutive_failures + 1,
                    !.state = "open"]
    ELSE [cb EXCEPT !.consecutive_failures = cb.consecutive_failures + 1]

\* the durations wait_if_open passes to asyncio.sleep: none when it returns at once
wait_if_open_sleeps(cb) ==
    IF cb.state # "open" THEN <<>> ELSE <<cb.current_backoff>>

\* variant: the end of the sleep closes the breaker
wait_if_open_Closes(cb) ==
    IF cb.state # "open"
    THEN cb
    ELSE [cb EXCEPT !.state = "closed",
                    !.backoff_tier = cb.backoff_tier + 1,
                    !.current_backoff =
                        Min(cb.initial_backoff
                              * Pow(cb.backoff_multiplier, cb.backoff_tier + 1),
                            cb.max_backoff)]

\* variant: returns at once only when closed
wait_if_open_UnlessClosed(cb) ==
    IF cb.state = "closed"
    THEN cb
    ELSE [cb EXCEPT !.state = "half_open",
                    !.backoff_tier = cb.backoff_tier + 1,
                    !.current_backoff =
                        Min(cb.initial_backoff
                              * Pow(cb.backoff_multiplier, cb.backoff_tier + 1),
                            cb.max_backoff)]

wait_if_open(cb) ==
    IF cb.state # "open"
    THEN cb
    ELSE [cb EXCEPT !.state = "half_open",
                    !.backoff_tier = cb.backoff_tier + 1,
                    !.current_backoff =
                        Min(cb.initial_backoff
                              * Pow(cb.backoff_multiplier, cb.backoff_tier + 1),
                            cb.max_backoff)]

\* variant: probes while the breaker is open
should_probe_WhenOpen(cb) == cb.state = "open"

should_probe(cb) == cb.state = "half_open"

record_probe_failure(cb) == [cb EXCEPT !.state = "open"]

\* backoff_sleeps after a call that took the breaker from cb to cb2 and slept
\* the durations in slept: a transition to closed starts a new run of opens
SleepsAfter(cb, cb2, slept) ==
    IF cb.state # "closed" /\ cb2.state = "closed"
    THEN <<>>
    ELSE backoff_sleeps \o slept

(***************************************************************************)
(* Fetcher                                                                 *)
(***************************************************************************)
\* what the server does with one GET: the request raises (timeout, connect
\* error, ...) or a response with a status code arrives
GetOutcomes ==
    {[raised |-> TRUE, status_code |-> 0]}
      \cup {[raised |-> FALSE, status_code |-> s] : s \in StatusCodes}

NoResult == [type |-> "none", status_code |-> 0]

WebpageEvent(status_code) == [type |-> "webpage_fetched", status_code |-> status_code]

SkippedRobots == [type |-> "skipped_robots", status_code |-> 0]

\* status_code 0 stands for a failure without a status code
SiteWideFailure(status_code) == [type |-> "site_wide", status_code |-> status_code]

UrlSpecificFailure(status_code) == [type |-> "url_specific", status_code |-> status_code]

_classify_exception == SiteWideFailure(0)

_classify_response(status_code) ==
    IF status_code >= 500 \/ status_code \in {502, 503, 504}
    THEN SiteWideFailure(status_code)
    ELSE UrlSpecificFailure(status_code)

\* the ProcessResult of one attempt whose GET had outcome o
_do_fetch(o) ==
    IF o.raised THEN _classify_exception
    ELSE IF o.status_code >= 400 THEN _classify_response(o.status_code)
    ELSE WebpageEvent(o.status_code)

\* variant: a site-wide failure with a 5xx status is retried as well
Continues_RetrySiteWide(r) ==
    CASE r.type = "webpage_fetched" -> FALSE
      [] r.type = "skipped_robots" -> FALSE
      [] r.type = "site_wide" -> r.status_code # 0 /\ r.status_code >= 500
      [] r.type = "url_specific" -> r.status_code # 0 /\ r.status_code >= 500

\* the match of the attempt loop: TRUE when the loop goes on to the next
\* attempt after an attempt with result r, FALSE when it returns or breaks
Continues(r) ==
    CASE r.type = "webpage_fetched" -> FALSE
      [] r.type = "skipped_robots" -> FALSE
      [] r.type = "site_wide" -> FALSE
      [] r.type = "url_specific" -> r.status_code # 0 /\ r.status_code >= 500

(***************************************************************************)
(* RateLimiter                                                             *)
(*                                                                         *)
(* Time is in whole seconds and every event falls on a whole second.       *)
(* requests_per_second is a fraction num/den with num in {0, 1}, so that   *)
(* 1.0 / requests_per_second is a whole number of seconds.  A worker reads *)
(* its clock, then awaits EVALSHA: the script runs atomically at the       *)
(* Redis, at any instant from the clock read on.  SCRIPT LOAD is left out: *)
(* it stores nothing the script reads.                                     *)
(***************************************************************************)
WORKERS == {"w1", "w2"}
DOMAINS == {"d1", "d2"}
NoDomain == "none"

\* what GET answers for a key that is not there (false in Lua)
Nil == -1

\* requests_per_second: 0, 1 and 0.5
RateChoices == {[num |-> 0, den |-> 1], [num |-> 1, den |-> 1], [num |-> 1, den |-> 2]}

Max(a, b) == IF a >= b THEN a ELSE b

\* variant: a TTL of one second whatever the interval
RateLimiter_ShortTtl(requests_per_second, poll_interval_seconds) ==
    LET min_interval == IF requests_per_second.num > 0
                        THEN requests_per_second.den \div requests_per_second.num
                        ELSE 0
    IN [min_interval  |-> min_interval,
        poll_interval |-> poll_interval_seconds,
        ttl           |-> 1]

\* variant: the TTL is max(2, int(min_interval))
RateLimiter_TtlWithoutMargin(requests_per_second, poll_interval_seconds) ==
    LET min_interval == IF requests_per_second.num > 0
                        THEN requests_per_second.den \div requests_per_second.num
                        ELSE 0
    IN [min_interval  |-> min_interval,
        poll_interval |-> poll_interval_seconds,
        ttl           |-> Max(2, min_interval)]

\* RateLimiter.__init__; int() of a whole number of seconds is that number
RateLimiter(requests_per_second, poll_interval_seconds) ==
    LET min_interval == IF requests_per_second.num > 0
                        THEN requests_per_second.den \div requests_per_second.num
                        ELSE 0
    IN [min_interval  |-> min_interval,
        poll_interval |-> poll_interval_seconds,
        ttl           |-> Max(2, min_interval + 1)]

\* variant: every domain shares one key
RateLimitKey_Shared(domain) == <<"rate_limit", "d1">>

\* key = f"rate_limit:{domain}"
RateLimitKey(domain) == <<"rate_limit", domain>>

EmptyStore == [k \in {} |-> Nil]

\* redis.call('GET', key)
GET(store, key) == IF key \in DOMAIN store THEN store[key].value ELSE Nil

\* redis.call('SET', key, value, 'EX', ttl), executed at the instant at
SET_EX(store, key, value, ttl, at) ==
    [k \in DOMAIN store \cup {key} |->
        IF k = key THEN [value |-> value, expires_at |-> at + ttl] ELSE store[k]]

\* the keys whose time to live has run out at the instant at are gone
Expire(store, at) ==
    [k \in {j \in DOMAIN store : store[j].expires_at > at} |-> store[k]]

\* variant: stores the instant of the check, not the caller's timestamp
RATE_LIMIT_SCRIPT_ServerTime(store, key, now, min_interval, ttl, at) ==
    LET last == GET(store, key) IN
    IF last = Nil
    THEN [ret |-> 1, store |-> SET_EX(store, key, at, ttl, at)]
    ELSE IF now - last >= min_interval
         THEN [ret |-> 1, store |-> SET_EX(store, key, at, ttl, at)]
         ELSE [ret |-> 0, store |-> store]

\* variant: allows after half the interval
RATE_LIMIT_SCRIPT_HalfInterval(store, key, now, min_interval, ttl, at) ==
    LET last == GET(store, key) IN
    IF last = Nil
    THEN [ret |-> 1, store |-> SET_EX(store, key, now, ttl, at)]
    ELSE IF 2 * (now - last) >= min_interval
         THEN [ret |-> 1, store |-> SET_EX(store, key, now, ttl, at)]
         ELSE [ret |-> 0, store |-> store]

\* the Lua script, run at the instant at: what it returns and the store it leaves
RATE_LIMIT_SCRIPT(store, key, now, min_interval, ttl, at) ==
    LET last == GET(store, key) IN
    IF last = Nil
    THEN [ret |-> 1, store |-> SET_EX(store, key, now, ttl, at)]
    ELSE IF now - last >= min_interval
         THEN [ret |-> 1, store |-> SET_EX(store, key, now, ttl, at)]
         ELSE [ret |-> 0, store |-> store]

\* a worker that is not inside acquire
Idle == [pc |-> "idle", domain |-> NoDomain, now |-> 0, checks |-> 0, wake_at |-> 0]

\* enqueue_seeds is not running
SeedsAtRest ==
    seeding = [pc |-> "idle", seeds |-> <<>>, i |-> 1, current |-> 0, enqueued |-> 0,
               initial |-> <<>>]

\* a worker outside is_allowed that has not called it yet
RobotsIdle == [pc |-> "idle", domain |-> NoDomain, path |-> <<>>, body |-> {}, outcome |-> "none", answer |-> TRUE, fetched_at |-> [d \in DOMAINS |-> Nil]]

RobotsAtRest ==
    /\ robots_checker = [cache_ttl |-> 1, has_fetcher |-> TRUE]
    /\ checking = [w \in WORKERS |-> RobotsIdle]
    /\ robots_calls = 0

\* a worker process between two iterations
WorkerIdle == [pc |-> "idle", url |-> NoUrl, result |-> NoResult, attempt |-> 0]

\* the workers of SpecWorkers do not run
PoolAtRest ==
    /\ workers = [w \in WORKERS |-> WorkerIdle]
    /\ dequeues = [u \in URLS |-> 0]

\* no page is fetched with its contents
PagesAtRest ==
    /\ site = [u \in URLS |-> <<>>]
    /\ cache_writes = <<>>
    /\ sent = <<>>

AuxAtRest == SeedsAtRest /\ RobotsAtRest /\ PoolAtRest /\ PagesAtRest

LimiterAtRest ==
    /\ clock = 0
    /\ rate_limiter = RateLimiter([num |-> 1, den |-> 1], 1)
    /\ kv = EmptyStore
    /\ acquiring = [w \in WORKERS |-> Idle]
    /\ grants = <<>>

SchedulerAtRest ==
    /\ url_filter_output = <<>>
    /\ scheduler = [pc |-> "stopped", url |-> NoUrl, current_size |-> 0,
                    shutdown_requested |-> TRUE]
    /\ scheduler_config = [max_queue_size |-> 1, variant |-> "package"]

\* a worker calls acquire(domain)
AcquireCall(w, domain) ==
    /\ acquiring[w].pc = "idle"
    /\ Len(grants) + Cardinality({v \in WORKERS : acquiring[v].pc # "idle"}) < MaxGrants
    /\ acquiring' = [acquiring EXCEPT ![w] = [Idle EXCEPT !.pc = "read", !.domain = domain]]
    /\ UNCHANGED <<clock, rate_limiter, kv, grants, fetch_vars, scheduler_vars,
                   aux_vars>>

\* now = time.time()
ReadClock(w) ==
    /\ acquiring[w].pc = "read"
    /\ acquiring' = [acquiring EXCEPT ![w].pc = "check", ![w].now = clock]
    /\ UNCHANGED <<clock, rate_limiter, kv, grants, fetch_vars, scheduler_vars,
                   aux_vars>>

\* the script runs at the Redis; on 1 acquire returns, on 0 it starts
\* asyncio.sleep(self._poll_interval)
Check(w) ==
    LET a == acquiring[w]
        r == RATE_LIMIT_SCRIPT(kv, RateLimitKey(a.domain), a.now,
                               rate_limiter.min_interval, rate_limiter.ttl, clock)
    IN
    /\ a.pc = "check"
    /\ kv' = r.store
    /\ IF r.ret = 1
       THEN /\ acquiring' = [acquiring EXCEPT ![w] = Idle]
            /\ grants' = Append(grants, [worker |-> w, domain |-> a.domain,
                                         now |-> a.now, at |-> clock,
                                         checks |-> a.checks + 1])
       ELSE /\ acquiring' = [acquiring EXCEPT
                                ![w].pc = "sleep",
                                ![w].checks = a.checks + 1,
                                ![w].wake_at = clock + rate_limiter.poll_interval]
            /\ UNCHANGED grants
    /\ UNCHANGED <<clock, rate_limiter, fetch_vars, scheduler_vars,
                   aux_vars>>

\* the poll sleep is over: back to the top of the while loop
Wake(w) ==
    /\ acquiring[w].pc = "sleep"
    /\ clock >= acquiring[w].wake_at
    /\ acquiring' = [acquiring EXCEPT ![w].pc = "read"]
    /\ UNCHANGED <<clock, rate_limiter, kv, grants, fetch_vars, scheduler_vars,
                   aux_vars>>

\* a second passes
Tick ==
    /\ clock < MaxClock
    /\ clock' = clock + 1
    /\ kv' = Expire(kv, clock + 1)
    /\ UNCHANGED <<rate_limiter, acquiring, grants, fetch_vars, scheduler_vars,
                   aux_vars>>

NextLimiter ==
    \/ \E w \in WORKERS, domain \in DOMAINS : AcquireCall(w, domain)
    \/ \E w \in WORKERS : ReadClock(w)
    \/ \E w \in WORKERS : Check(w)
    \/ \E w \in WORKERS : Wake(w)
    \/ Tick

\* the fetch loop does not run; the poll interval is one second
InitLimiter ==
    /\ \E r \in RateChoices : rate_limiter = RateLimiter(r, 1)
    /\ clock = 0
    /\ kv = EmptyStore
    /\ acquiring = [w \in WORKERS |-> Idle]
    /\ grants = <<>>
    /\ circuit_breaker = CircuitBreaker(1, 1, 1, 1)
    /\ fetcher = [max_retries |-> 0, retry_backoff_base |-> 2]
    /\ input_queue = <<>>
    /\ dlq = <<>>
    /\ webpage_log = <<>>
    /\ cache = {}
    /\ shutdown_requested = FALSE
    /\ pc = "stopped"
    /\ url = NoUrl
    /\ result = NoResult
    /\ attempt = 0
    /\ gets = <<>>
    /\ retry_sleeps = <<>>
    /\ backoff_sleeps = <<>>
    /\ calls = <<>>
    /\ acquires = 0
    /\ AuxAtRest
    /\ SchedulerAtRest

SpecLimiter == InitLimiter /\ [][NextLimiter]_vars

(***************************************************************************)
(* The fetch loop of one worker                                            *)
(***************************************************************************)
Seqs(S, n) == UNION {[1..k -> S] : k \in 0..n}

Init ==
    /\ \E t \in 1..MaxThreshold, i \in 1..MaxInitialBackoff,
          m \in 1..MaxMaxBackoff, k \in 1..MaxMultiplier :
          circuit_breaker = CircuitBreaker(t, i, m, k)
    /\ \E r \in 0..MaxRetries :
          fetcher = [max_retries |-> r, retry_backoff_base |-> 2]
    /\ input_queue \in Seqs(URLS, MaxQueue)
    /\ dlq = <<>>
    /\ webpage_log = <<>>
    /\ cache = {}
    /\ shutdown_requested = FALSE
    /\ pc = "top"
    /\ url = NoUrl
    /\ result = NoResult
    /\ attempt = 0
    /\ gets = <<>>
    /\ retry_sleeps = <<>>
    /\ backoff_sleeps = <<>>
    /\ calls = <<>>
    /\ acquires = 0
    /\ AuxAtRest
    /\ LimiterAtRest
    /\ SchedulerAtRest

\* signal handler
_request_shutdown ==
    /\ ~shutdown_requested
    /\ shutdown_requested' = TRUE
    /\ UNCHANGED <<circuit_breaker, fetcher, input_queue, dlq, webpage_log, cache,
                   pc, url, result, attempt, gets, retry_sleeps, backoff_sleeps, calls, acquires,
                   limiter_vars, scheduler_vars, aux_vars>>

\* variant: wait_if_open is not awaited
LoopTop_NoWait ==
    /\ pc = "top"
    /\ pc' = IF shutdown_requested THEN "stopped" ELSE "check_probe"
    /\ UNCHANGED <<circuit_breaker, backoff_sleeps, fetcher, input_queue, dlq, webpage_log,
                   cache, shutdown_requested, url, result, attempt, gets, retry_sleeps,
                   calls, acquires, limiter_vars, scheduler_vars, aux_vars>>

\* variant: the loop condition is not looked at
LoopTop_IgnoresShutdown ==
    /\ pc = "top"
    /\ circuit_breaker' = wait_if_open(circuit_breaker)
    /\ backoff_sleeps' = SleepsAfter(circuit_breaker, circuit_breaker',
                                     wait_if_open_sleeps(circuit_breaker))
    /\ pc' = "check_probe"
    /\ UNCHANGED <<fetcher, input_queue, dlq, webpage_log, cache, shutdown_requested,
                   url, result, attempt, gets, retry_sleeps, calls, acquires,
                   limiter_vars, scheduler_vars, aux_vars>>

\* while not _shutdown_requested: await circuit_breaker.wait_if_open()
LoopTop ==
    /\ pc = "top"
    /\ IF shutdown_requested
       THEN /\ pc' = "stopped"
            /\ UNCHANGED <<circuit_breaker, backoff_sleeps>>
       ELSE /\ circuit_breaker' = wait_if_open(circuit_breaker)
            /\ backoff_sleeps' = SleepsAfter(circuit_breaker, circuit_breaker',
                                             wait_if_open_sleeps(circuit_breaker))
            /\ pc' = "check_probe"
    /\ UNCHANGED <<fetcher, input_queue, dlq, webpage_log, cache, shutdown_requested,
                   url, result, attempt, gets, retry_sleeps, calls, acquires,
                   limiter_vars, scheduler_vars, aux_vars>>

\* if circuit_breaker.should_probe: probe_domain, record, continue
Probe ==
    /\ pc = "check_probe"
    /\ should_probe(circuit_breaker)
    /\ \E success \in BOOLEAN :
          /\ success \/ circuit_breaker.backoff_tier < MaxTier
          /\ circuit_breaker' =
                IF success
                THEN record_success(circuit_breaker)
                ELSE record_site_wide_failure(record_probe_failure(circuit_breaker))
    /\ backoff_sleeps' = SleepsAfter(circuit_breaker, circuit_breaker', <<>>)
    /\ pc' = "top"
    /\ UNCHANGED <<fetcher, input_queue, dlq, webpage_log, cache, shutdown_requested,
                   url, result, attempt, gets, retry_sleeps, calls, acquires,
                   limiter_vars, scheduler_vars, aux_vars>>

\* variant: dequeues without looking at should_probe
Dequeue_NoProbeCheck ==
    /\ pc = "check_probe"
    /\ IF input_queue = <<>>
       THEN /\ pc' = "top"
            /\ UNCHANGED <<input_queue, url>>
       ELSE /\ url' = Head(input_queue)
            /\ input_queue' = Tail(input_queue)
            /\ pc' = "process"
    /\ UNCHANGED <<circuit_breaker, fetcher, dlq, webpage_log, cache, shutdown_requested,
                   result, attempt, gets, retry_sleeps, backoff_sleeps, calls, acquires,
                   limiter_vars, scheduler_vars, aux_vars>>

\* url = await input_queue.dequeue(...); if url is None: continue
Dequeue ==
    /\ pc = "check_probe"
    /\ ~should_probe(circuit_breaker)
    /\ IF input_queue = <<>>
       THEN /\ pc' = "top"
            /\ UNCHANGED <<input_queue, url>>
       ELSE /\ url' = Head(input_queue)
            /\ input_queue' = Tail(input_queue)
            /\ pc' = "process"
    /\ UNCHANGED <<circuit_breaker, fetcher, dlq, webpage_log, cache, shutdown_requested,
                   result, attempt, gets, retry_sleeps, backoff_sleeps, calls, acquires,
                   limiter_vars, scheduler_vars, aux_vars>>

\* variant: takes the rate-limit slot before it asks robots
ProcessStart_AcquiresFirst ==
    /\ pc = "process"
    /\ \E allowed \in BOOLEAN :
          IF ~allowed
          THEN /\ result' = SkippedRobots
               /\ pc' = "dispatch"
          ELSE /\ result' = NoResult
               /\ pc' = "attempt"
    /\ acquires' = 1
    /\ attempt' = 0
    /\ gets' = <<>>
    /\ retry_sleeps' = <<>>
    /\ UNCHANGED <<circuit_breaker, fetcher, input_queue, dlq, webpage_log, cache,
                   shutdown_requested, url, backoff_sleeps, calls,
                   limiter_vars, scheduler_vars, aux_vars>>

\* Fetcher.process up to the attempt loop: the robots gate, then
\* rate_limiter.acquire(domain)
ProcessStart ==
    /\ pc = "process"
    /\ \E allowed \in BOOLEAN :
          IF ~allowed
          THEN /\ result' = SkippedRobots
               /\ acquires' = 0
               /\ pc' = "dispatch"
          ELSE /\ result' = NoResult
               /\ acquires' = 1
               /\ pc' = "attempt"
    /\ attempt' = 0
    /\ gets' = <<>>
    /\ retry_sleeps' = <<>>
    /\ UNCHANGED <<circuit_breaker, fetcher, input_queue, dlq, webpage_log, cache,
                   shutdown_requested, url, backoff_sleeps, calls,
                   limiter_vars, scheduler_vars, aux_vars>>

\* variant: the rate-limit slot is acquired inside the attempt loop
Attempt_AcquiresEachAttempt ==
    /\ pc = "attempt"
    /\ \E o \in GetOutcomes :
          LET r == _do_fetch(o) IN
          /\ gets' = Append(gets, o)
          /\ retry_sleeps' =
                IF attempt > 0
                THEN Append(retry_sleeps, Pow(fetcher.retry_backoff_base, attempt))
                ELSE retry_sleeps
          /\ result' = r
          /\ IF r.type = "webpage_fetched"
             THEN /\ attempt' = attempt
                  /\ pc' = "cache_set"
             ELSE IF Continues(r) /\ attempt + 1 <= fetcher.max_retries
                  THEN /\ attempt' = attempt + 1
                       /\ pc' = "attempt"
                  ELSE /\ attempt' = attempt
                       /\ pc' = "dispatch"
    /\ acquires' = acquires + 1
    /\ UNCHANGED <<circuit_breaker, fetcher, input_queue, dlq, webpage_log, cache,
                   shutdown_requested, url, backoff_sleeps, calls,
                   limiter_vars, scheduler_vars, aux_vars>>

\* one pass of the attempt loop: the retry sleep, the GET of _do_fetch and,
\* unless the answer is below 400, the match; result is what _do_fetch is
\* going to return
Attempt ==
    /\ pc = "attempt"
    /\ \E o \in GetOutcomes :
          LET r == _do_fetch(o) IN
          /\ gets' = Append(gets, o)
          /\ retry_sleeps' =
                IF attempt > 0
                THEN Append(retry_sleeps, Pow(fetcher.retry_backoff_base, attempt))
                ELSE retry_sleeps
          /\ result' = r
          /\ IF r.type = "webpage_fetched"
             THEN /\ attempt' = attempt
                  /\ pc' = "cache_set"
             ELSE IF Continues(r) /\ attempt + 1 <= fetcher.max_retries
                  THEN /\ attempt' = attempt + 1
                       /\ pc' = "attempt"
                  ELSE /\ attempt' = attempt
                       /\ pc' = "dispatch"
    /\ UNCHANGED <<circuit_breaker, fetcher, input_queue, dlq, webpage_log, cache,
                   shutdown_requested, url, backoff_sleeps, calls, acquires,
                   limiter_vars, scheduler_vars, aux_vars>>

\* variant: the body is not written
CacheSet_NoWrite ==
    /\ pc = "cache_set"
    /\ pc' = "send"
    /\ UNCHANGED <<circuit_breaker, fetcher, input_queue, dlq, webpage_log, cache,
                   shutdown_requested, url, result, attempt, gets, retry_sleeps,
                   backoff_sleeps, calls, acquires,
                   limiter_vars, scheduler_vars, aux_vars>>

\* _do_fetch after an answer below 400: await self._cache.set(cache_key, body)
CacheSet ==
    /\ pc = "cache_set"
    /\ cache' = cache \cup {url}
    /\ pc' = "send"
    /\ UNCHANGED <<circuit_breaker, fetcher, input_queue, dlq, webpage_log,
                   shutdown_requested, url, result, attempt, gets, retry_sleeps,
                   backoff_sleeps, calls, acquires,
                   limiter_vars, scheduler_vars, aux_vars>>

\* await self._producer.send(topic, payload); return event; process returns it
Send ==
    /\ pc = "send"
    /\ webpage_log' = Append(webpage_log, url)
    /\ pc' = "dispatch"
    /\ UNCHANGED <<circuit_breaker, fetcher, input_queue, dlq, cache,
                   shutdown_requested, url, result, attempt, gets, retry_sleeps,
                   backoff_sleeps, calls, acquires,
                   limiter_vars, scheduler_vars, aux_vars>>

\* match result: case WebpageEvent()
DispatchEvent ==
    /\ pc = "dispatch"
    /\ result.type = "webpage_fetched"
    /\ circuit_breaker' = record_success(circuit_breaker)
    /\ backoff_sleeps' = SleepsAfter(circuit_breaker, circuit_breaker', <<>>)
    /\ pc' = "top"
    /\ UNCHANGED <<fetcher, input_queue, dlq, webpage_log, cache, shutdown_requested,
                   url, result, attempt, gets, retry_sleeps, calls, acquires,
                   limiter_vars, scheduler_vars, aux_vars>>

\* match result: case SkippedRobots()
DispatchSkipped ==
    /\ pc = "dispatch"
    /\ result.type = "skipped_robots"
    /\ pc' = "top"
    /\ UNCHANGED <<circuit_breaker, fetcher, input_queue, dlq, webpage_log, cache,
                   shutdown_requested, url, result, attempt, gets, retry_sleeps,
                   backoff_sleeps, calls, acquires,
                   limiter_vars, scheduler_vars, aux_vars>>

\* variant: LPUSH
enqueue_AtHead(queue, item) == <<item>> \o queue

\* RedisQueue.enqueue: RPUSH
enqueue(queue, item) == Append(queue, item)

\* match result: case SiteWideFailure(), up to the end of the awaited enqueue
DispatchSiteWide ==
    /\ pc = "dispatch"
    /\ result.type = "site_wide"
    /\ input_queue' = enqueue(input_queue, url)
    /\ pc' = "requeued"
    /\ UNCHANGED <<circuit_breaker, fetcher, dlq, webpage_log, cache,
                   shutdown_requested, url, result, attempt, gets, retry_sleeps,
                   backoff_sleeps, calls, acquires,
                   limiter_vars, scheduler_vars, aux_vars>>

\* match result: case SiteWideFailure(), after the enqueue
RecordSiteWide ==
    /\ pc = "requeued"
    /\ circuit_breaker' = record_site_wide_failure(circuit_breaker)
    /\ backoff_sleeps' = SleepsAfter(circuit_breaker, circuit_breaker', <<>>)
    /\ pc' = "top"
    /\ UNCHANGED <<fetcher, input_queue, dlq, webpage_log, cache, shutdown_requested,
                   url, result, attempt, gets, retry_sleeps, calls, acquires,
                   limiter_vars, scheduler_vars, aux_vars>>

\* variant: a URL-specific failure counts toward the breaker as well
DispatchUrlSpecific_CountsFailure ==
    /\ pc = "dispatch"
    /\ result.type = "url_specific"
    /\ dlq' = enqueue(dlq, url)
    /\ circuit_breaker' = record_site_wide_failure(circuit_breaker)
    /\ pc' = "top"
    /\ UNCHANGED <<fetcher, input_queue, webpage_log, cache,
                   shutdown_requested, url, result, attempt, gets, retry_sleeps,
                   backoff_sleeps, calls, acquires,
                   limiter_vars, scheduler_vars, aux_vars>>

\* match result: case UrlSpecificFailure()
DispatchUrlSpecific ==
    /\ pc = "dispatch"
    /\ result.type = "url_specific"
    /\ dlq' = enqueue(dlq, url)
    /\ pc' = "top"
    /\ UNCHANGED <<circuit_breaker, fetcher, input_queue, webpage_log, cache,
                   shutdown_requested, url, result, attempt, gets, retry_sleeps,
                   backoff_sleeps, calls, acquires,
                   limiter_vars, scheduler_vars, aux_vars>>

Next ==
    \/ _request_shutdown
    \/ LoopTop
    \/ Probe
    \/ Dequeue
    \/ ProcessStart
    \/ Attempt
    \/ CacheSet
    \/ Send
    \/ DispatchEvent
    \/ DispatchSkipped
    \/ DispatchSiteWide
    \/ RecordSiteWide
    \/ DispatchUrlSpecific

Spec == Init /\ [][Next]_vars

\* a step of the event loop that runs _run, as opposed to the signal
WorkerNext == Next /\ shutdown_requested' = shutdown_requested

(***************************************************************************)
(* The fetch loop when a Redis or Kafka operation can raise                *)
(***************************************************************************)
\* the awaits of _run and of Fetcher._do_fetch that go to the queue, the
\* cache or the producer; the GET has its own except clauses in _do_fetch
AtTransportOperation ==
    \/ pc = "check_probe" /\ ~should_probe(circuit_breaker)
    \/ pc = "process"
    \/ pc = "cache_set"
    \/ pc = "send"
    \/ pc = "dispatch" /\ result.type \in {"site_wide", "url_specific"}

\* the operation raises (redis.ConnectionError, KafkaError, ...): neither
\* _do_fetch, nor process, nor the while loop of _run has a handler for it,
\* so it leaves _run and asyncio.run(_run(config)) re-raises it in main
TransportFailure ==
    /\ AtTransportOperation
    /\ pc' = "crashed"
    /\ UNCHANGED <<circuit_breaker, fetcher, input_queue, dlq, webpage_log, cache,
                   shutdown_requested, url, result, attempt, gets, retry_sleeps,
                   backoff_sleeps, calls, acquires,
                   limiter_vars, scheduler_vars, aux_vars>>

NextFaults ==
    \/ Next
    \/ TransportFailure

SpecFaults == Init /\ [][NextFaults]_vars

(***************************************************************************)
(* A CircuitBreaker driven directly through its methods                    *)
(***************************************************************************)
Call(name, cb2, slept) ==
    /\ Len(calls) < MaxCalls
    /\ circuit_breaker' = cb2
    /\ backoff_sleeps' = SleepsAfter(circuit_breaker, cb2, slept)
    /\ calls' = Append(calls, name)
    /\ UNCHANGED <<worker_vars, acquires, limiter_vars, scheduler_vars, aux_vars>>

CallRecordSuccess ==
    Call("record_success", record_success(circuit_breaker), <<>>)

CallRecordSiteWideFailure ==
    Call("record_site_wide_failure", record_site_wide_failure(circuit_breaker), <<>>)

CallWaitIfOpen ==
    Call("wait_if_open", wait_if_open(circuit_breaker),
         wait_if_open_sleeps(circuit_breaker))

CallRecordProbeFailure ==
    Call("record_probe_failure", record_probe_failure(circuit_breaker), <<>>)

NextBreaker ==
    \/ CallRecordSuccess
    \/ CallRecordSiteWideFailure
    \/ CallWaitIfOpen
    \/ CallRecordProbeFailure

\* a freshly constructed breaker; the worker does not run
InitBreaker ==
    /\ \E t \in 1..MaxThreshold, i \in 1..MaxInitialBackoff,
          m \in 1..MaxMaxBackoff, k \in 1..MaxMultiplier :
          circuit_breaker = CircuitBreaker(t, i, m, k)
    /\ fetcher = [max_retries |-> 0, retry_backoff_base |-> 2]
    /\ input_queue = <<>>
    /\ dlq = <<>>
    /\ webpage_log = <<>>
    /\ cache = {}
    /\ shutdown_requested = FALSE
    /\ pc = "top"
    /\ url = NoUrl
    /\ result = NoResult
    /\ attempt = 0
    /\ gets = <<>>
    /\ retry_sleeps = <<>>
    /\ backoff_sleeps = <<>>
    /\ calls = <<>>
    /\ acquires = 0
    /\ AuxAtRest
    /\ LimiterAtRest
    /\ SchedulerAtRest

SpecBreaker == InitBreaker /\ [][NextBreaker]_vars

(***************************************************************************)
(* The fetch loop with failure_threshold queued URLs of a host that fails  *)
(* site-wide on every fetch                                                *)
(***************************************************************************)
UrlList == <<"u1", "u2", "u3", "u4">>

\* the queue the scenario starts with: failure_threshold distinct URLs
TripQueue == SubSeq(UrlList, 1, circuit_breaker.failure_threshold)

InitTrip ==
    /\ \E t \in 1..MaxThreshold, i \in 1..MaxInitialBackoff,
          m \in 1..MaxMaxBackoff, k \in 1..MaxMultiplier :
          circuit_breaker = CircuitBreaker(t, i, m, k)
    /\ \E r \in 0..MaxRetries :
          fetcher = [max_retries |-> r, retry_backoff_base |-> 2]
    /\ input_queue = TripQueue
    /\ dlq = <<>>
    /\ webpage_log = <<>>
    /\ cache = {}
    /\ shutdown_requested = FALSE
    /\ pc = "top"
    /\ url = NoUrl
    /\ result = NoResult
    /\ attempt = 0
    /\ gets = <<>>
    /\ retry_sleeps = <<>>
    /\ backoff_sleeps = <<>>
    /\ calls = <<>>
    /\ acquires = 0
    /\ AuxAtRest
    /\ LimiterAtRest
    /\ SchedulerAtRest

\* the worker's steps; no shutdown is requested, robots.txt allows every URL
\* and every fetch ends in a SiteWideFailure
NextTrip ==
    \/ LoopTop
    \/ Probe
    \/ Dequeue
    \/ ProcessStart /\ pc' = "attempt"
    \/ Attempt /\ result'.type = "site_wide"
    \/ DispatchSiteWide
    \/ RecordSiteWide

SpecTrip == InitTrip /\ [][NextTrip]_vars

(***************************************************************************)
(* The fetch loop with one queued URL whose every GET is answered with an  *)
(* HTTP 5xx status, while every probe of the domain succeeds               *)
(***************************************************************************)
Init5xx ==
    /\ \E t \in 1..MaxThreshold, i \in 1..MaxInitialBackoff,
          m \in 1..MaxMaxBackoff, k \in 1..MaxMultiplier :
          circuit_breaker = CircuitBreaker(t, i, m, k)
    /\ \E r \in 0..MaxRetries :
          fetcher = [max_retries |-> r, retry_backoff_base |-> 2]
    /\ input_queue = <<"u1">>
    /\ dlq = <<>>
    /\ webpage_log = <<>>
    /\ cache = {}
    /\ shutdown_requested = FALSE
    /\ pc = "top"
    /\ url = NoUrl
    /\ result = NoResult
    /\ attempt = 0
    /\ gets = <<>>
    /\ retry_sleeps = <<>>
    /\ backoff_sleeps = <<>>
    /\ calls = <<>>
    /\ acquires = 0
    /\ AuxAtRest
    /\ LimiterAtRest
    /\ SchedulerAtRest

\* the worker's steps; no shutdown is requested and robots.txt allows the
\* URL.  _classify_response turns every status >= 500 into a
\* SiteWideFailure, so the match of _run only ever takes that case
Next5xx ==
    \/ LoopTop
    \/ Probe /\ circuit_breaker'.state = "closed"
    \/ Dequeue
    \/ ProcessStart /\ pc' = "attempt"
    \/ Attempt /\ ~gets'[Len(gets')].raised /\ gets'[Len(gets')].status_code >= 500
    \/ DispatchSiteWide
    \/ RecordSiteWide

\* the worker is scheduled fairly: it keeps taking its next step
Spec5xx == Init5xx /\ [][Next5xx]_vars /\ WF_vars(Next5xx)

(***************************************************************************)
(* The crawler scheduler: one process moving URLs from its input queue     *)
(* (url_filter_output) to its output queue, the crawler queue that the     *)
(* fetch workers read, here input_queue.  The repository has two main.py:  *)
(* the package one works through RedisQueue (LPOP/BLPOP, RPUSH), the       *)
(* script one through the Redis client (BRPOP, LPUSH, RPUSH).  Every       *)
(* Redis command is a step of its own; between the steps the URL filter    *)
(* appends to the input queue and fetch workers take from the crawler      *)
(* queue.  No command fails.                                               *)
(***************************************************************************)
VARIANTS == {"package", "script"}

\* input_queue.dequeue (LPOP or BLPOP: the head) / client.brpop (the tail)
Popped(queue) ==
    IF scheduler_config.variant = "package" THEN Head(queue) ELSE queue[Len(queue)]

AfterPop(queue) ==
    IF scheduler_config.variant = "package"
    THEN Tail(queue)
    ELSE SubSeq(queue, 1, Len(queue) - 1)

\* the put-back: input_queue.enqueue (RPUSH: the tail) / client.lpush (the head)
Requeued(queue, item) ==
    IF scheduler_config.variant = "package" THEN enqueue(queue, item) ELSE <<item>> \o queue

\* variant: current_size > max_queue_size
AtMaxSize_Strict(current_size) == current_size > scheduler_config.max_queue_size

\* if current_size >= config.max_queue_size
AtMaxSize(current_size) == current_size >= scheduler_config.max_queue_size

\* signal handler of the scheduler process
SchedulerShutdown ==
    /\ ~scheduler.shutdown_requested
    /\ scheduler' = [scheduler EXCEPT !.shutdown_requested = TRUE]
    /\ UNCHANGED <<url_filter_output, scheduler_config, fetch_vars, limiter_vars,
                   aux_vars>>

\* while not _shutdown_requested: url = dequeue(timeout); if url is None: continue
SchedulerDequeue ==
    /\ scheduler.pc = "dequeue"
    /\ IF scheduler.shutdown_requested
       THEN /\ scheduler' = [scheduler EXCEPT !.pc = "stopped"]
            /\ UNCHANGED url_filter_output
       ELSE IF url_filter_output = <<>>
            THEN UNCHANGED <<scheduler, url_filter_output>>
            ELSE /\ scheduler' = [scheduler EXCEPT !.pc = "size",
                                                   !.url = Popped(url_filter_output)]
                 /\ url_filter_output' = AfterPop(url_filter_output)
    /\ UNCHANGED <<scheduler_config, fetch_vars, limiter_vars,
                   aux_vars>>

\* current_size = output_queue.size()
SchedulerSize ==
    /\ scheduler.pc = "size"
    /\ scheduler' = [scheduler EXCEPT !.pc = "decide", !.current_size = Len(input_queue)]
    /\ UNCHANGED <<url_filter_output, scheduler_config, fetch_vars, limiter_vars,
                   aux_vars>>

\* backpressure: input_queue.enqueue(url); continue
Backpressure ==
    /\ scheduler.pc = "decide"
    /\ AtMaxSize(scheduler.current_size)
    /\ url_filter_output' = Requeued(url_filter_output, scheduler.url)
    /\ scheduler' = [scheduler EXCEPT !.pc = "dequeue"]
    /\ UNCHANGED <<scheduler_config, fetch_vars, limiter_vars,
                   aux_vars>>

\* output_queue.enqueue(url)
Forward ==
    /\ scheduler.pc = "decide"
    /\ ~AtMaxSize(scheduler.current_size)
    /\ input_queue' = enqueue(input_queue, scheduler.url)
    /\ scheduler' = [scheduler EXCEPT !.pc = "dequeue"]
    /\ UNCHANGED <<circuit_breaker, fetcher, dlq, webpage_log, cache,
                   shutdown_requested, pc, url, result, attempt, gets, retry_sleeps,
                   backoff_sleeps, calls, acquires, url_filter_output,
                   scheduler_config, limiter_vars, aux_vars>>

\* the URL filter appends a URL to the scheduler's input queue
UrlFilterEnqueue ==
    /\ Len(url_filter_output) < MaxQueue
    /\ \E u \in URLS : url_filter_output' = enqueue(url_filter_output, u)
    /\ UNCHANGED <<scheduler, scheduler_config, fetch_vars, limiter_vars,
                   aux_vars>>

\* a fetch worker takes the head of the crawler queue (RedisQueue.dequeue)
FetchWorkerDequeue ==
    /\ input_queue # <<>>
    /\ input_queue' = Tail(input_queue)
    /\ UNCHANGED <<circuit_breaker, fetcher, dlq, webpage_log, cache,
                   shutdown_requested, pc, url, result, attempt, gets, retry_sleeps,
                   backoff_sleeps, calls, acquires, scheduler_vars, limiter_vars,
                   aux_vars>>

NextScheduler ==
    \/ SchedulerShutdown
    \/ SchedulerDequeue
    \/ SchedulerSize
    \/ Backpressure
    \/ Forward
    \/ UrlFilterEnqueue
    \/ FetchWorkerDequeue

\* the scheduler at the top of its loop, after the seeds; the fetch loop of
\* this model's worker does not run
InitScheduler ==
    /\ \E m \in 1..MaxQueueSize, v \in VARIANTS :
          scheduler_config = [max_queue_size |-> m, variant |-> v]
    /\ scheduler = [pc |-> "dequeue", url |-> NoUrl, current_size |-> 0,
                    shutdown_requested |-> FALSE]
    /\ url_filter_output \in Seqs(URLS, MaxQueue)
    /\ input_queue \in Seqs(URLS, MaxQueue)
    /\ circuit_breaker = CircuitBreaker(1, 1, 1, 1)
    /\ fetcher = [max_retries |-> 0, retry_backoff_base |-> 2]
    /\ dlq = <<>>
    /\ webpage_log = <<>>
    /\ cache = {}
    /\ shutdown_requested = FALSE
    /\ pc = "stopped"
    /\ url = NoUrl
    /\ result = NoResult
    /\ attempt = 0
    /\ gets = <<>>
    /\ retry_sleeps = <<>>
    /\ backoff_sleeps = <<>>
    /\ calls = <<>>
    /\ acquires = 0
    /\ AuxAtRest
    /\ LimiterAtRest

SpecScheduler == InitScheduler /\ [][NextScheduler]_vars

(***************************************************************************)
(* The scheduler loop when a Redis command can raise                       *)
(***************************************************************************)
\* the scheduler is about to issue a queue command: the pop (the loop
\* condition has been passed), the size or one of the two pushes
AtQueueOperation ==
    \/ scheduler.pc = "dequeue" /\ ~scheduler.shutdown_requested
    \/ scheduler.pc \in {"size", "decide"}

\* variant: the error ends the loop
SchedulerTransportError_Fatal ==
    /\ AtQueueOperation
    /\ scheduler' = [scheduler EXCEPT !.pc = "stopped"]
    /\ UNCHANGED <<url_filter_output, scheduler_config, fetch_vars, limiter_vars,
                   aux_vars>>

\* the command raises: except Exception (package), except
\* redis.ConnectionError / redis.RedisError (script); the handler logs and
\* calls time.sleep; the command has had no effect on the lists
SchedulerTransportError ==
    /\ AtQueueOperation
    /\ scheduler' = [scheduler EXCEPT !.pc = "sleep"]
    /\ UNCHANGED <<url_filter_output, scheduler_config, fetch_vars, limiter_vars,
                   aux_vars>>

\* time.sleep returns (in the script after the ping, whose RedisError is
\* passed over); the try statement is over, back to the loop condition
SchedulerSleepOver ==
    /\ scheduler.pc = "sleep"
    /\ scheduler' = [scheduler EXCEPT !.pc = "dequeue"]
    /\ UNCHANGED <<url_filter_output, scheduler_config, fetch_vars, limiter_vars,
                   aux_vars>>

NextSchedulerFaults ==
    \/ NextScheduler
    \/ SchedulerTransportError
    \/ SchedulerSleepOver

SpecSchedulerFaults == InitScheduler /\ [][NextSchedulerFaults]_vars

(***************************************************************************)
(* enqueue_seeds (crawler_scheduler/seeds.py), run at the scheduler's      *)
(* startup on the crawler queue, here input_queue, while nothing else      *)
(* touches the queue.  seeding.i is the position of the for loop in seeds, *)
(* seeding.initial the queue as the call found it.                         *)
(***************************************************************************)
\* variant: breaks only when the queue is longer than max_queue_size
SeedLlen_Strict ==
    /\ seeding.pc = "llen"
    /\ seeding.i <= Len(seeding.seeds)
    /\ LET current == Len(input_queue) IN
       seeding' = [seeding EXCEPT
                      !.current = current,
                      !.pc = IF current > scheduler_config.max_queue_size
                             THEN "done" ELSE "rpush"]
    /\ UNCHANGED <<fetch_vars, limiter_vars, scheduler_vars, robots_vars, pool_vars,
                   page_vars>>

\* for url in seeds: current = llen(output_queue); if current >= max_queue_size: break
SeedLlen ==
    /\ seeding.pc = "llen"
    /\ seeding.i <= Len(seeding.seeds)
    /\ LET current == Len(input_queue) IN
       seeding' = [seeding EXCEPT
                      !.current = current,
                      !.pc = IF current >= scheduler_config.max_queue_size
                             THEN "done" ELSE "rpush"]
    /\ UNCHANGED <<fetch_vars, limiter_vars, scheduler_vars, robots_vars, pool_vars,
                   page_vars>>

\* rpush(output_queue, url); enqueued += 1
SeedRpush ==
    /\ seeding.pc = "rpush"
    /\ input_queue' = enqueue(input_queue, seeding.seeds[seeding.i])
    /\ seeding' = [seeding EXCEPT !.enqueued = seeding.enqueued + 1,
                                  !.i = seeding.i + 1,
                                  !.pc = "llen"]
    /\ UNCHANGED <<circuit_breaker, fetcher, dlq, webpage_log, cache,
                   shutdown_requested, pc, url, result, attempt, gets, retry_sleeps,
                   backoff_sleeps, calls, acquires, limiter_vars, scheduler_vars,
                   robots_vars, pool_vars,
                   page_vars>>

\* the for loop is through: return enqueued
SeedsReturn ==
    /\ seeding.pc = "llen"
    /\ seeding.i > Len(seeding.seeds)
    /\ seeding' = [seeding EXCEPT !.pc = "done"]
    /\ UNCHANGED <<fetch_vars, limiter_vars, scheduler_vars, robots_vars, pool_vars,
                   page_vars>>

NextSeeds ==
    \/ SeedLlen
    \/ SeedRpush
    \/ SeedsReturn

\* enqueue_seeds is called with up to MaxSeeds seeds on a queue of up to
\* MaxQueue + 1 URLs; neither the scheduler loop nor a fetch worker runs
InitSeeds ==
    /\ \E m \in 1..MaxQueueSize, v \in VARIANTS :
          scheduler_config = [max_queue_size |-> m, variant |-> v]
    /\ input_queue \in Seqs({"filled"}, MaxQueue + 1)
    /\ \E seeds \in Seqs(URLS, MaxSeeds) :
          seeding = [pc |-> "llen", seeds |-> seeds, i |-> 1, current |-> 0,
                     enqueued |-> 0, initial |-> input_queue]
    /\ scheduler = [pc |-> "stopped", url |-> NoUrl, current_size |-> 0,
                    shutdown_requested |-> FALSE]
    /\ url_filter_output = <<>>
    /\ circuit_breaker = CircuitBreaker(1, 1, 1, 1)
    /\ fetcher = [max_retries |-> 0, retry_backoff_base |-> 2]
    /\ dlq = <<>>
    /\ webpage_log = <<>>
    /\ cache = {}
    /\ shutdown_requested = FALSE
    /\ pc = "stopped"
    /\ url = NoUrl
    /\ result = NoResult
    /\ attempt = 0
    /\ gets = <<>>
    /\ retry_sleeps = <<>>
    /\ backoff_sleeps = <<>>
    /\ calls = <<>>
    /\ acquires = 0
    /\ LimiterAtRest
    /\ RobotsAtRest
    /\ PoolAtRest
    /\ PagesAtRest

SpecSeeds == InitSeeds /\ [][NextSeeds]_vars

(***************************************************************************)
(* RobotsChecker.is_allowed over the Redis cache (page_fetcher/robots.py). *)
(* A robots body is the set of the path prefixes it disallows for the      *)
(* configured user agent; a URL is its domain and its path, a sequence of  *)
(* segments.  Outside a call, checking[w] keeps the domain, the outcome    *)
(* and the answer of the worker's last call; fetched_at[d] is the instant  *)
(* of the worker's last cache write for d; robots_calls counts the calls.  *)
(***************************************************************************)
MaxRobotsCalls == 2
MaxRobotsTtl == 2

PATHS == {<<"private", "secret">>, <<"public", "page">>}

RULES == {<<"private">>}

BODIES == SUBSET RULES

IsPrefix(p, q) == Len(p) <= Len(q) /\ SubSeq(q, 1, Len(p)) = p

\* variant: the answer of the parser is inverted
can_fetch_Inverted(body, path) == \E rule \in body : IsPrefix(rule, path)

\* rp.parse(body.splitlines()); rp.can_fetch(self._user_agent, url)
can_fetch(body, path) == ~ \E rule \in body : IsPrefix(rule, path)

\* cache_key = f"robots:{domain}"
RobotsKey(domain) == <<"robots", domain>>

\* is_allowed returns
RobotsReturn(w, outcome, answer) ==
    [checking[w] EXCEPT !.pc = "idle", !.path = <<>>, !.body = {},
                        !.outcome = outcome, !.answer = answer]

\* a worker calls is_allowed(url)
IsAllowedCall(w, domain, path) ==
    /\ checking[w].pc = "idle"
    /\ robots_calls < MaxRobotsCalls
    /\ robots_calls' = robots_calls + 1
    /\ checking' = [checking EXCEPT ![w].pc = "get", ![w].domain = domain, ![w].path = path,
                                    ![w].outcome = "none", ![w].answer = TRUE]
    /\ UNCHANGED <<robots_checker, limiter_vars, fetch_vars, scheduler_vars,
                   seeds_vars, pool_vars,
                   page_vars>>

\* a worker calls is_allowed with a URL that has no host: if not domain:
\* return True
IsAllowedNoDomain(w) ==
    /\ checking[w].pc = "idle"
    /\ robots_calls < MaxRobotsCalls
    /\ robots_calls' = robots_calls + 1
    /\ checking' = [checking EXCEPT ![w].domain = NoDomain, ![w].outcome = "no_domain",
                                    ![w].answer = TRUE]
    /\ UNCHANGED <<robots_checker, limiter_vars, fetch_vars, scheduler_vars,
                   seeds_vars, pool_vars,
                   page_vars>>

\* raw = await self._cache.get(cache_key); a hit is answered by the parser;
\* on a miss without a fetcher the answer is True
RobotsCacheGet(w) ==
    LET key == RobotsKey(checking[w].domain) IN
    /\ checking[w].pc = "get"
    /\ checking' =
          [checking EXCEPT ![w] =
              IF key \in DOMAIN kv
              THEN RobotsReturn(w, "hit", can_fetch(kv[key].value, checking[w].path))
              ELSE IF ~robots_checker.has_fetcher
                   THEN RobotsReturn(w, "no_fetcher", TRUE)
                   ELSE [checking[w] EXCEPT !.pc = "fetch"]]
    /\ UNCHANGED <<robots_checker, robots_calls, limiter_vars, fetch_vars, scheduler_vars,
                   seeds_vars, pool_vars,
                   page_vars>>

\* body = await self._fetcher(domain): _fetch_robots_txt gives None on a
\* status other than 200 and on any exception, then the answer is True
RobotsFetch(w) ==
    /\ checking[w].pc = "fetch"
    /\ \/ checking' = [checking EXCEPT ![w] = RobotsReturn(w, "absent", TRUE)]
       \/ \E body \in BODIES :
             checking' = [checking EXCEPT ![w].pc = "set", ![w].body = body]
    /\ UNCHANGED <<robots_checker, robots_calls, limiter_vars, fetch_vars, scheduler_vars,
                   seeds_vars, pool_vars,
                   page_vars>>

\* variant: the body is parsed but not stored
RobotsCacheSet_NoWrite(w) ==
    /\ checking[w].pc = "set"
    /\ checking' = [checking EXCEPT
                       ![w] = [RobotsReturn(w, "fetched",
                                            can_fetch(checking[w].body, checking[w].path))
                                  EXCEPT !.fetched_at[checking[w].domain] = clock]]
    /\ UNCHANGED <<robots_checker, robots_calls, limiter_vars, fetch_vars, scheduler_vars,
                   seeds_vars, pool_vars,
                   page_vars>>

\* await self._cache.set(cache_key, body, ttl_seconds=self._cache_ttl), then
\* the answer of the parser for the fetched body
RobotsCacheSet(w) ==
    /\ checking[w].pc = "set"
    /\ kv' = SET_EX(kv, RobotsKey(checking[w].domain), checking[w].body,
                    robots_checker.cache_ttl, clock)
    /\ checking' = [checking EXCEPT
                       ![w] = [RobotsReturn(w, "fetched",
                                            can_fetch(checking[w].body, checking[w].path))
                                  EXCEPT !.fetched_at[checking[w].domain] = clock]]
    /\ UNCHANGED <<robots_checker, robots_calls, clock, rate_limiter, acquiring, grants,
                   fetch_vars, scheduler_vars, seeds_vars, pool_vars,
                   page_vars>>

NextRobots ==
    \/ \E w \in WORKERS, domain \in DOMAINS, path \in PATHS : IsAllowedCall(w, domain, path)
    \/ \E w \in WORKERS : IsAllowedNoDomain(w)
    \/ \E w \in WORKERS : RobotsCacheGet(w)
    \/ \E w \in WORKERS : RobotsFetch(w)
    \/ \E w \in WORKERS : RobotsCacheSet(w)
    \/ Tick

\* checkers of the workers over one Redis; the cache is empty or holds a
\* body for d1 that another process stored
InitRobots ==
    /\ \E ttl \in 1..MaxRobotsTtl, f \in BOOLEAN :
          robots_checker = [cache_ttl |-> ttl, has_fetcher |-> f]
    /\ checking = [w \in WORKERS |-> RobotsIdle]
    /\ robots_calls = 0
    /\ clock = 0
    /\ \/ kv = EmptyStore
       \/ \E body \in BODIES :
             kv = SET_EX(EmptyStore, RobotsKey("d1"), body, robots_checker.cache_ttl, 0)
    /\ rate_limiter = RateLimiter([num |-> 1, den |-> 1], 1)
    /\ acquiring = [w \in WORKERS |-> Idle]
    /\ grants = <<>>
    /\ circuit_breaker = CircuitBreaker(1, 1, 1, 1)
    /\ fetcher = [max_retries |-> 0, retry_backoff_base |-> 2]
    /\ input_queue = <<>>
    /\ dlq = <<>>
    /\ webpage_log = <<>>
    /\ cache = {}
    /\ shutdown_requested = FALSE
    /\ pc = "stopped"
    /\ url = NoUrl
    /\ result = NoResult
    /\ attempt = 0
    /\ gets = <<>>
    /\ retry_sleeps = <<>>
    /\ backoff_sleeps = <<>>
    /\ calls = <<>>
    /\ acquires = 0
    /\ SeedsAtRest
    /\ PoolAtRest
    /\ PagesAtRest
    /\ SchedulerAtRest

SpecRobots == InitRobots /\ [][NextRobots]_vars

(***************************************************************************)
(* Several worker processes on one input queue, one DLQ, one cache and one *)
(* event topic.  Each runs the iteration of _run with Fetcher.process.     *)
(* The circuit breaker, the rate limiter and the shutdown flag of a worker *)
(* decide when its next iteration begins and write none of the shared      *)
(* objects (a probe is a HEAD that sends no event), so here a worker may   *)
(* begin an iteration at any time.  dequeues[u] counts the pops of u.      *)
(***************************************************************************)
MaxDequeues == 3

single_vars == <<circuit_breaker, shutdown_requested, pc, url, result, attempt, gets,
                 retry_sleeps, backoff_sleeps, calls, acquires>>

Sum(f) == f["u1"] + f["u2"]

Count(seq, u) == Cardinality({i \in 1..Len(seq) : seq[i] = u})

\* url = await input_queue.dequeue(...) with an item in the queue
W_Dequeue(w) ==
    /\ workers[w].pc = "idle"
    /\ input_queue # <<>>
    /\ Sum(dequeues) < MaxDequeues
    /\ workers' = [workers EXCEPT ![w] = [WorkerIdle EXCEPT !.pc = "process",
                                                            !.url = Head(input_queue)]]
    /\ dequeues' = [dequeues EXCEPT ![Head(input_queue)] = @ + 1]
    /\ input_queue' = Tail(input_queue)
    /\ UNCHANGED <<fetcher, dlq, webpage_log, cache, single_vars,
                   limiter_vars, scheduler_vars, seeds_vars, robots_vars,
                   page_vars>>

\* Fetcher.process up to the attempt loop
W_ProcessStart(w) ==
    /\ workers[w].pc = "process"
    /\ \E allowed \in BOOLEAN :
          workers' = [workers EXCEPT
                         ![w].pc = IF allowed THEN "attempt" ELSE "dispatch",
                         ![w].result = IF allowed THEN NoResult ELSE SkippedRobots]
    /\ UNCHANGED <<fetcher, input_queue, dlq, webpage_log, cache, dequeues, single_vars,
                   limiter_vars, scheduler_vars, seeds_vars, robots_vars,
                   page_vars>>

\* one pass of the attempt loop up to the answer of the GET
W_Attempt(w) ==
    /\ workers[w].pc = "attempt"
    /\ \E o \in GetOutcomes :
          LET r == _do_fetch(o) IN
          workers' = [workers EXCEPT
                         ![w].result = r,
                         ![w].attempt =
                             IF r.type # "webpage_fetched" /\ Continues(r)
                                /\ @ + 1 <= fetcher.max_retries
                             THEN @ + 1 ELSE @,
                         ![w].pc =
                             IF r.type = "webpage_fetched" THEN "cache_set"
                             ELSE IF Continues(r) /\ workers[w].attempt + 1 <= fetcher.max_retries
                                  THEN "attempt" ELSE "dispatch"]
    /\ UNCHANGED <<fetcher, input_queue, dlq, webpage_log, cache, dequeues, single_vars,
                   limiter_vars, scheduler_vars, seeds_vars, robots_vars,
                   page_vars>>

\* await self._cache.set(cache_key, body)
W_CacheSet(w) ==
    /\ workers[w].pc = "cache_set"
    /\ cache' = cache \cup {workers[w].url}
    /\ workers' = [workers EXCEPT ![w].pc = "send"]
    /\ UNCHANGED <<fetcher, input_queue, dlq, webpage_log, dequeues, single_vars,
                   limiter_vars, scheduler_vars, seeds_vars, robots_vars,
                   page_vars>>

\* variant: the record is sent a second time
W_Send_Twice(w) ==
    /\ workers[w].pc = "send"
    /\ webpage_log' = webpage_log \o <<workers[w].url, workers[w].url>>
    /\ workers' = [workers EXCEPT ![w].pc = "dispatch"]
    /\ UNCHANGED <<fetcher, input_queue, dlq, cache, dequeues, single_vars,
                   limiter_vars, scheduler_vars, seeds_vars, robots_vars,
                   page_vars>>

\* await self._producer.send(topic, payload); return event
W_Send(w) ==
    /\ workers[w].pc = "send"
    /\ webpage_log' = Append(webpage_log, workers[w].url)
    /\ workers' = [workers EXCEPT ![w].pc = "dispatch"]
    /\ UNCHANGED <<fetcher, input_queue, dlq, cache, dequeues, single_vars,
                   limiter_vars, scheduler_vars, seeds_vars, robots_vars,
                   page_vars>>

\* match result of _run: only the two failure cases write a queue
W_Dispatch(w) ==
    /\ workers[w].pc = "dispatch"
    /\ input_queue' = IF workers[w].result.type = "site_wide"
                      THEN enqueue(input_queue, workers[w].url) ELSE input_queue
    /\ dlq' = IF workers[w].result.type = "url_specific"
              THEN enqueue(dlq, workers[w].url) ELSE dlq
    /\ workers' = [workers EXCEPT ![w].pc = "idle"]
    /\ UNCHANGED <<fetcher, webpage_log, cache, dequeues, single_vars,
                   limiter_vars, scheduler_vars, seeds_vars, robots_vars,
                   page_vars>>

NextWorkers ==
    \/ \E w \in WORKERS : W_Dequeue(w)
    \/ \E w \in WORKERS : W_ProcessStart(w)
    \/ \E w \in WORKERS : W_Attempt(w)
    \/ \E w \in WORKERS : W_CacheSet(w)
    \/ \E w \in WORKERS : W_Send(w)
    \/ \E w \in WORKERS : W_Dispatch(w)

\* the workers idle, the queue filled by the scheduler; the single worker
\* of Spec does not run
InitWorkers ==
    /\ workers = [w \in WORKERS |-> WorkerIdle]
    /\ dequeues = [u \in URLS |-> 0]
    /\ \E r \in 0..MaxRetries :
          fetcher = [max_retries |-> r, retry_backoff_base |-> 2]
    /\ input_queue \in Seqs(URLS, MaxQueue)
    /\ dlq = <<>>
    /\ webpage_log = <<>>
    /\ cache = {}
    /\ circuit_breaker = CircuitBreaker(1, 1, 1, 1)
    /\ shutdown_requested = FALSE
    /\ pc = "stopped"
    /\ url = NoUrl
    /\ result = NoResult
    /\ attempt = 0
    /\ gets = <<>>
    /\ retry_sleeps = <<>>
    /\ backoff_sleeps = <<>>
    /\ calls = <<>>
    /\ acquires = 0
    /\ SeedsAtRest
    /\ RobotsAtRest
    /\ PagesAtRest
    /\ LimiterAtRest
    /\ SchedulerAtRest

SpecWorkers == InitWorkers /\ [][NextWorkers]_vars

(***************************************************************************)
(* The crawler queue with all its writers: the scheduler process, which    *)
(* runs enqueue_seeds and then its loop, and the fetch workers, which pop  *)
(* from the queue and push site-wide failures back (page_fetcher/main.py). *)
(* One fetch worker runs, robots.txt allows every URL and the site answers *)
(* every GET with 503.  No command fails.                                  *)
(***************************************************************************)
TheWorker == "w1"

\* main of the scheduler: enqueue_seeds has returned (or broken off), the
\* loop begins
SchedulerLoopStarts ==
    /\ seeding.pc = "done"
    /\ scheduler.pc = "stopped"
    /\ ~scheduler.shutdown_requested
    /\ scheduler' = [scheduler EXCEPT !.pc = "dequeue"]
    /\ UNCHANGED <<url_filter_output, scheduler_config, fetch_vars, limiter_vars,
                   aux_vars>>

NextCrawlerQueue ==
    \/ NextSeeds
    \/ SchedulerLoopStarts
    \/ SchedulerShutdown
    \/ SchedulerDequeue
    \/ SchedulerSize
    \/ Backpressure
    \/ Forward
    \/ W_Dequeue(TheWorker)
    \/ W_ProcessStart(TheWorker) /\ workers'[TheWorker].pc = "attempt"
    \/ W_Attempt(TheWorker) /\ workers'[TheWorker].result = SiteWideFailure(503)
    \/ W_Dispatch(TheWorker)

\* the scheduler process starts on a crawler queue that is not longer than
\* max_queue_size, the workers idle; the seeds and the queue's first contents
\* are copies of u1, the URLs waiting in the scheduler's input queue of u2
InitCrawlerQueue ==
    /\ \E m \in 1..MaxQueueSize, v \in VARIANTS :
          scheduler_config = [max_queue_size |-> m, variant |-> v]
    /\ input_queue \in Seqs({"u1"}, MaxQueue)
    /\ Len(input_queue) <= scheduler_config.max_queue_size
    /\ \E seeds \in Seqs({"u1"}, MaxSeeds) :
          seeding = [pc |-> "llen", seeds |-> seeds, i |-> 1, current |-> 0,
                     enqueued |-> 0, initial |-> input_queue]
    /\ scheduler = [pc |-> "stopped", url |-> NoUrl, current_size |-> 0,
                    shutdown_requested |-> FALSE]
    /\ url_filter_output \in Seqs({"u2"}, MaxQueue)
    /\ workers = [w \in WORKERS |-> WorkerIdle]
    /\ dequeues = [u \in URLS |-> 0]
    /\ fetcher = [max_retries |-> 0, retry_backoff_base |-> 2]
    /\ dlq = <<>>
    /\ webpage_log = <<>>
    /\ cache = {}
    /\ circuit_breaker = CircuitBreaker(1, 1, 1, 1)
    /\ shutdown_requested = FALSE
    /\ pc = "stopped"
    /\ url = NoUrl
    /\ result = NoResult
    /\ attempt = 0
    /\ gets = <<>>
    /\ retry_sleeps = <<>>
    /\ backoff_sleeps = <<>>
    /\ calls = <<>>
    /\ acquires = 0
    /\ LimiterAtRest
    /\ RobotsAtRest
    /\ PagesAtRest

SpecCrawlerQueue == InitCrawlerQueue /\ [][NextCrawlerQueue]_vars

(***************************************************************************)
(* The successful path of Fetcher._do_fetch with what it writes: the body  *)
(* under its cache key and the event with its message key.  A text is a    *)
(* sequence of code points, its UTF-8 encoding a sequence of bytes.        *)
(* SHA-256 is a digest of one byte here, so that different inputs can      *)
(* collide; hexdigest() gives its two hexadecimal digits, digest() the     *)
(* byte.  The site answers every GET of a URL with 200 and the same text.  *)
(***************************************************************************)
MaxBody == 2

MaxFetches == 3

\* "a" and "e" with acute accent
CodePoints == {97, 233}

TEXTS == Seqs(CodePoints, MaxBody)

\* the URLs as texts: "a1", "a2"
UrlText == [u \in URLS |-> IF u = "u1" THEN <<97, 49>> ELSE <<97, 50>>]

\* str.encode("utf-8") for code points below 2048
RECURSIVE Utf8(_)
Utf8(text) ==
    IF text = <<>> THEN <<>>
    ELSE LET c == Head(text) IN
         (IF c < 128 THEN <<c>> ELSE <<192 + (c \div 64), 128 + (c % 64)>>)
            \o Utf8(Tail(text))

\* hashlib.sha256(data)
RECURSIVE sha256(_)
sha256(data) ==
    IF data = <<>> THEN 7
    ELSE (sha256(SubSeq(data, 1, Len(data) - 1)) * 31 + data[Len(data)]) % 256

hexdigest(data) == <<sha256(data) \div 16, sha256(data) % 16>>

digest(data) == <<sha256(data)>>

\* f"webpage:{h}" with h the hexdigest of the URL
_cache_key(u) == <<"webpage:", hexdigest(Utf8(UrlText[u]))>>

\* variant: the hash covers the time of the fetch
FetchPage_HashesTime(u) ==
    /\ Len(sent) < MaxFetches
    /\ LET body == site[u]
           cache_key == _cache_key(u)
           content_hash == hexdigest(Utf8(body) \o <<clock>>)
           event == [url |-> u, cache_key |-> cache_key, status_code |-> 200,
                     content_length |-> Len(Utf8(body)),
                     content_hash |-> content_hash, fetched_at |-> clock]
           key == digest(Utf8(UrlText[u]))
       IN /\ cache_writes' = Append(cache_writes, [key |-> cache_key, body |-> body])
          /\ sent' = Append(sent, [event |-> event, key |-> key])
    /\ UNCHANGED <<site, fetch_vars, limiter_vars, scheduler_vars, seeds_vars,
                   robots_vars, pool_vars>>

\* _do_fetch from body = resp.text on: cache.set, the event, producer.send
FetchPage(u) ==
    /\ Len(sent) < MaxFetches
    /\ LET body == site[u]
           cache_key == _cache_key(u)
           content_hash == hexdigest(Utf8(body))
           event == [url |-> u, cache_key |-> cache_key, status_code |-> 200,
                     content_length |-> Len(Utf8(body)),
                     content_hash |-> content_hash, fetched_at |-> clock]
           key == digest(Utf8(UrlText[u]))
       IN /\ cache_writes' = Append(cache_writes, [key |-> cache_key, body |-> body])
          /\ sent' = Append(sent, [event |-> event, key |-> key])
    /\ UNCHANGED <<site, fetch_vars, limiter_vars, scheduler_vars, seeds_vars,
                   robots_vars, pool_vars>>

NextPages ==
    \/ \E u \in URLS : FetchPage(u)
    \/ Tick

InitPages ==
    /\ site \in [URLS -> TEXTS]
    /\ cache_writes = <<>>
    /\ sent = <<>>
    /\ input_queue = <<>>
    /\ calls = <<>>
    /\ circuit_breaker = CircuitBreaker(1, 1, 1, 1)
    /\ fetcher = [max_retries |-> 0, retry_backoff_base |-> 2]
    /\ dlq = <<>>
    /\ webpage_log = <<>>
    /\ cache = {}
    /\ shutdown_requested = FALSE
    /\ pc = "stopped"
    /\ url = NoUrl
    /\ result = NoResult
    /\ attempt = 0
    /\ gets = <<>>
    /\ retry_sleeps = <<>>
    /\ backoff_sleeps = <<>>
    /\ acquires = 0
    /\ SeedsAtRest
    /\ RobotsAtRest
    /\ PoolAtRest
    /\ LimiterAtRest
    /\ SchedulerAtRest

SpecPages == InitPages /\ [][NextPages]_vars

(***************************************************************************)
(* A RedisQueue on a fresh key driven directly through its three methods   *)
(* (core/queue.py), as its unit tests drive it.  The Redis list is         *)
(* input_queue; calls is the log of the calls with what they returned.     *)
(***************************************************************************)
\* variant: RPOP
dequeue_FromTail(queue) ==
    IF queue = <<>>
    THEN [ret |-> NoUrl, queue |-> queue]
    ELSE [ret |-> queue[Len(queue)], queue |-> SubSeq(queue, 1, Len(queue) - 1)]

\* RedisQueue.dequeue: LPOP, or BLPOP that returns None at its timeout;
\* NoUrl stands for None
dequeue(queue) ==
    IF queue = <<>>
    THEN [ret |-> NoUrl, queue |-> queue]
    ELSE [ret |-> Head(queue), queue |-> Tail(queue)]

\* RedisQueue.size: LLEN
size(queue) == Len(queue)

QueueCall(name, item, n, queue2) ==
    /\ Len(calls) < MaxCalls
    /\ calls' = Append(calls, [name |-> name, item |-> item, n |-> n])
    /\ input_queue' = queue2
    /\ UNCHANGED <<circuit_breaker, fetcher, dlq, webpage_log, cache, shutdown_requested,
                   pc, url, result, attempt, gets, retry_sleeps, backoff_sleeps, acquires,
                   limiter_vars, scheduler_vars, aux_vars>>

CallEnqueue == \E item \in URLS : QueueCall("enqueue", item, 0, enqueue(input_queue, item))

\* with no timeout or with one: on an empty list both return None, the
\* second after having blocked
CallDequeue ==
    \E timeout_seconds \in {0, 1} :
        QueueCall("dequeue", dequeue(input_queue).ret, timeout_seconds,
                  dequeue(input_queue).queue)

CallSize == QueueCall("size", NoUrl, size(input_queue), input_queue)

NextQueue ==
    \/ CallEnqueue
    \/ CallDequeue
    \/ CallSize

InitQueue ==
    /\ input_queue = <<>>
    /\ calls = <<>>
    /\ circuit_breaker = CircuitBreaker(1, 1, 1, 1)
    /\ fetcher = [max_retries |-> 0, retry_backoff_base |-> 2]
    /\ dlq = <<>>
    /\ webpage_log = <<>>
    /\ cache = {}
    /\ shutdown_requested = FALSE
    /\ pc = "stopped"
    /\ url = NoUrl
    /\ result = NoResult
    /\ attempt = 0
    /\ gets = <<>>
    /\ retry_sleeps = <<>>
    /\ backoff_sleeps = <<>>
    /\ acquires = 0
    /\ AuxAtRest
    /\ LimiterAtRest
    /\ SchedulerAtRest

SpecQueue == InitQueue /\ [][NextQueue]_vars

(***************************************************************************)
(* Properties of Fetcher.process and of the dispatch of its result         *)
(***************************************************************************)
Http(status_code) == [raised |-> FALSE, status_code |-> status_code]

Is5xx(o) == ~o.raised /\ o.status_code >= 500

\* a step of the worker, as opposed to the arrival of a shutdown signal
WorkerStep == shutdown_requested' = shutdown_requested

\* C1: successive 5xx answers are retried inside one process call, up to
\* max_retries further attempts, with a sleep of retry_backoff_base^attempt
\* before attempt number attempt; answers 503, 503, 200 end in a WebpageEvent
\* after two retries.
C1_RetriesOn5xx ==
    pc = "dispatch" /\ gets # <<>> =>
        /\ Is5xx(gets[Len(gets)]) => Len(gets) = fetcher.max_retries + 1
        /\ retry_sleeps = [k \in 1..(Len(gets) - 1) |->
                              Pow(fetcher.retry_backoff_base, k)]
        /\ gets = <<Http(503), Http(503), Http(200)>> =>
              result.type = "webpage_fetched"

C3_SiteWideRequeued ==
    [][WorkerStep =>
        /\ pc = "dispatch" /\ result.type = "site_wide" =>
              /\ input_queue' = Append(input_queue, url)
              /\ pc' = "requeued"
              /\ UNCHANGED <<circuit_breaker, dlq, webpage_log, url>>
        /\ pc = "requeued" =>
              /\ circuit_breaker'.consecutive_failures =
                    circuit_breaker.consecutive_failures + 1
              /\ pc' = "top"
              /\ UNCHANGED <<input_queue, dlq, webpage_log>>]_vars

C3_Witness ==
    /\ pc = "top"
    /\ result.type = "site_wide"
    /\ Len(input_queue) >= 2
    /\ input_queue[Len(input_queue)] = url
    /\ input_queue[1] # url
    /\ circuit_breaker.consecutive_failures >= 1
    /\ dlq = <<>>
    /\ webpage_log = <<>>

\* C4: a UrlSpecificFailure is produced without an event, and its dispatch
\* appends the URL to the DLQ once and leaves the input queue, the event
\* topic and the whole breaker as they were.
C4_UrlSpecificToDlq ==
    [][WorkerStep =>
        /\ pc = "attempt" /\ result'.type = "url_specific" =>
              UNCHANGED <<circuit_breaker, input_queue, dlq, webpage_log>>
        /\ pc = "dispatch" /\ result.type = "url_specific" =>
              /\ dlq' = Append(dlq, url)
              /\ pc' = "top"
              /\ UNCHANGED <<circuit_breaker, input_queue, webpage_log>>]_vars

C4_Witness ==
    /\ pc = "top"
    /\ result = UrlSpecificFailure(404)
    /\ dlq # <<>>
    /\ dlq[Len(dlq)] = url
    /\ circuit_breaker.consecutive_failures >= 1
    /\ input_queue # <<>>

(***************************************************************************)
(* Properties of the circuit breaker                                       *)
(***************************************************************************)
OnlyRecordCalls ==
    \A i \in 1..Len(calls) :
        calls[i] \in {"record_success", "record_site_wide_failure"}

\* some n successive calls were all record_site_wide_failure
FailureRun(n) ==
    \E i \in 1..(Len(calls) - n + 1) :
        \A j \in i..(i + n - 1) : calls[j] = "record_site_wide_failure"

\* C5: a new breaker that has only seen record_site_wide_failure and
\* record_success calls is open exactly when failure_threshold failures came
\* in a row with no success between them, and closed otherwise.
C5_OpensAtThreshold ==
    OnlyRecordCalls =>
        circuit_breaker.state =
            IF FailureRun(circuit_breaker.failure_threshold) THEN "open" ELSE "closed"

C5_Witness ==
    /\ OnlyRecordCalls
    /\ circuit_breaker.failure_threshold >= 2
    /\ circuit_breaker.state = "open"
    /\ \E i \in 2..Len(calls) :
          /\ calls[i] = "record_success"
          /\ calls[i - 1] = "record_site_wide_failure"
          /\ \A j \in 1..(Len(calls) - i) : calls[i + j] = "record_site_wide_failure"
          /\ Len(calls) - i = circuit_breaker.failure_threshold

\* C6: wait_if_open called on an open breaker sleeps current_backoff and
\* leaves it half_open; called on a closed or half_open breaker it does not
\* sleep and changes nothing.
C6_WaitIfOpen ==
    [][calls' = Append(calls, "wait_if_open") =>
        IF circuit_breaker.state = "open"
        THEN /\ circuit_breaker'.state = "half_open"
             /\ backoff_sleeps' = Append(backoff_sleeps, circuit_breaker.current_backoff)
        ELSE /\ circuit_breaker' = circuit_breaker
             /\ backoff_sleeps' = backoff_sleeps]_vars

C6_Witness ==
    /\ Len(calls) >= 3
    /\ calls[Len(calls)] = "wait_if_open"
    /\ calls[Len(calls) - 1] = "wait_if_open"
    /\ circuit_breaker.state = "half_open"
    /\ circuit_breaker.backoff_tier = 1
    /\ Len(backoff_sleeps) = 1

\* C7: record_success called on a half_open breaker closes it and sets
\* current_backoff to initial_backoff, backoff_tier to 0 and
\* consecutive_failures to 0.
C7_HalfOpenSuccessCloses ==
    [][calls' = Append(calls, "record_success")
         /\ circuit_breaker.state = "half_open" =>
        /\ circuit_breaker'.state = "closed"
        /\ circuit_breaker'.current_backoff = circuit_breaker.initial_backoff
        /\ circuit_breaker'.backoff_tier = 0
        /\ circuit_breaker'.consecutive_failures = 0]_vars

C7_Witness ==
    /\ Len(calls) >= 4
    /\ calls[Len(calls)] = "record_success"
    /\ calls[Len(calls) - 1] = "wait_if_open"
    /\ calls[Len(calls) - 2] = "record_site_wide_failure"
    /\ calls[Len(calls) - 3] = "record_probe_failure"
    /\ circuit_breaker.state = "closed"
    /\ circuit_breaker.backoff_multiplier >= 2
    /\ circuit_breaker.initial_backoff < circuit_breaker.max_backoff

\* C8: in a run of opens with no close between them the k-th wait_if_open
\* sleeps min(initial_backoff * backoff_multiplier^(k-1), max_backoff).
C8_KthSleep ==
    \A k \in 1..Len(backoff_sleeps) :
        backoff_sleeps[k] =
            Min(circuit_breaker.initial_backoff
                  * Pow(circuit_breaker.backoff_multiplier, k - 1),
                circuit_breaker.max_backoff)

\* C9: the sleeps of wait_if_open across consecutive opens never decrease,
\* and the first open after a close sleeps initial_backoff.
C9_MonotoneSleeps ==
    /\ \A i, j \in 1..Len(backoff_sleeps) :
          i <= j => backoff_sleeps[i] <= backoff_sleeps[j]
    /\ backoff_sleeps # <<>> =>
          backoff_sleeps[1] = circuit_breaker.initial_backoff

\* C10: whenever the breaker is closed, current_backoff is initial_backoff
\* and backoff_tier is 0.
C10_ClosedMeansReset ==
    circuit_breaker.state = "closed" =>
        /\ circuit_breaker.current_backoff = circuit_breaker.initial_backoff
        /\ circuit_breaker.backoff_tier = 0

C10_Witness ==
    /\ circuit_breaker.state = "closed"
    /\ circuit_breaker.consecutive_failures >= 1
    /\ circuit_breaker.backoff_multiplier >= 2
    /\ circuit_breaker.initial_backoff < circuit_breaker.max_backoff
    /\ \E i \in 2..Len(calls) :
          /\ calls[i - 1] = "record_probe_failure"
          /\ calls[i] = "wait_if_open"

\* C11 (as claimed): consecutive_failures is below failure_threshold in every
\* state of the fetch loop but the one right after the failure that opened
\* the breaker.
C11_BelowThreshold ==
    \/ circuit_breaker.consecutive_failures < circuit_breaker.failure_threshold
    \/ /\ circuit_breaker.state = "open"
       /\ circuit_breaker.backoff_tier = 0
       /\ circuit_breaker.consecutive_failures = circuit_breaker.failure_threshold
       /\ pc = "top"

\* C11 (amended): consecutive_failures is below failure_threshold exactly
\* while the breaker is closed; it is at the threshold from the failure that
\* opens the breaker, stays there through wait_if_open and grows by one with
\* every failed probe.
C11_CounterByState ==
    LET cb == circuit_breaker IN
    /\ cb.state = "closed" => cb.consecutive_failures < cb.failure_threshold
    /\ cb.state = "open" =>
          cb.consecutive_failures = cb.failure_threshold + cb.backoff_tier
    /\ cb.state = "half_open" =>
          cb.consecutive_failures = cb.failure_threshold + cb.backoff_tier - 1

C11_Witness ==
    /\ circuit_breaker.state = "open"
    /\ circuit_breaker.backoff_tier = 2
    /\ circuit_breaker.consecutive_failures = circuit_breaker.failure_threshold + 2

\* C13: an iteration that finds the breaker half_open at the probe check
\* probes once and dequeues nothing; after a successful probe the breaker is
\* closed, after a failed one it is open and the next wait_if_open sleeps at
\* least as long as the previous one did.
C13_ProbeIteration ==
    [][WorkerStep /\ pc = "check_probe" /\ circuit_breaker.state = "half_open" =>
        /\ pc' = "top"
        /\ UNCHANGED <<input_queue, url, dlq, webpage_log>>
        /\ \/ circuit_breaker'.state = "closed"
           \/ /\ circuit_breaker'.state = "open"
              /\ backoff_sleeps # <<>>
              /\ wait_if_open_sleeps(circuit_breaker')[1]
                    >= backoff_sleeps[Len(backoff_sleeps)]]_vars

\* C14: after any sequence of calls of the four methods, should_probe is true
\* exactly when the breaker is half_open, which it is only from a
\* wait_if_open until the next record_success or record_probe_failure.
C14_ShouldProbeIffHalfOpen ==
    /\ should_probe(circuit_breaker) <=> circuit_breaker.state = "half_open"
    /\ should_probe(circuit_breaker) =>
          \E i \in 1..Len(calls) :
              /\ calls[i] = "wait_if_open"
              /\ \A j \in (i + 1)..Len(calls) :
                    calls[j] \in {"wait_if_open", "record_site_wide_failure"}

C14_Witness ==
    /\ should_probe(circuit_breaker)
    /\ Len(calls) >= 4
    /\ calls[Len(calls)] = "record_site_wide_failure"
    /\ \E i \in 1..Len(calls) : calls[i] = "record_probe_failure"

\* the queue q after its first n items were dequeued and re-enqueued in turn
Rotated(q, n) == SubSeq(q, n + 1, Len(q)) \o SubSeq(q, 1, n)

\* the queue and the counter while the scenario runs: each dequeue takes the
\* next URL of the starting queue, each failure puts it back at the tail
TripState ==
    LET cb == circuit_breaker
        k == cb.consecutive_failures
    IN
    /\ cb.state = "closed" =>
          /\ k < cb.failure_threshold
          /\ pc \in {"top", "check_probe"} =>
                input_queue = Rotated(TripQueue, k)
          /\ pc \in {"process", "attempt", "dispatch"} =>
                /\ url = TripQueue[k + 1]
                /\ input_queue = Tail(Rotated(TripQueue, k))
          /\ pc = "requeued" => input_queue = Rotated(TripQueue, k + 1)
    /\ cb.state # "closed" =>
          /\ pc \in {"top", "check_probe"}
          /\ input_queue = TripQueue
          /\ k >= cb.failure_threshold
          /\ cb.backoff_tier = 0 => cb.state = "open" /\ k = cb.failure_threshold

\* the worker's step out of an open and out of a half_open breaker
TripStep ==
    /\ circuit_breaker.state = "open" /\ pc = "top" =>
          circuit_breaker'.state = "half_open" /\ pc' = "check_probe"
    /\ circuit_breaker.state = "half_open" =>
          /\ input_queue' = input_queue
          /\ pc = "check_probe" => pc' = "top"

\* C12: with failure_threshold distinct URLs queued that all fail site-wide,
\* the worker re-enqueues each URL once, in queue order, and the last of
\* these failures opens the breaker with consecutive_failures at the
\* threshold; the wait_if_open that follows leaves it half_open, and from
\* there the worker probes before it dequeues again.
C12_TripThenProbe == []TripState /\ [][TripStep]_vars

C12_Witness ==
    /\ circuit_breaker.failure_threshold = MaxThreshold
    /\ circuit_breaker.state = "half_open"
    /\ circuit_breaker.backoff_tier = 1
    /\ pc = "check_probe"
    /\ input_queue = TripQueue
    /\ Len(input_queue) = MaxThreshold

(***************************************************************************)
(* Properties of the rate limiter                                          *)
(***************************************************************************)
\* only one worker has called acquire so far
OneWorker ==
    \E w \in WORKERS :
        /\ \A i \in 1..Len(grants) : grants[i].worker = w
        /\ \A v \in WORKERS \ {w} : acquiring[v].pc = "idle"

\* the step in which the check of worker w runs at the Redis
CheckStep(w) == acquiring[w].pc = "check" /\ acquiring'[w].pc # "check"

\* C15 (as claimed): with one worker calling acquire, the checks that grant
\* two calls for the same domain run at least min_interval apart.
C15_GrantsApart ==
    OneWorker =>
        \A i, j \in 1..Len(grants) :
            i < j /\ grants[i].domain = grants[j].domain =>
                grants[j].at - grants[i].at >= rate_limiter.min_interval

\* C15 (amended): with one worker calling acquire, a call is made after the
\* previous one was granted, and the check that grants it runs at least
\* min_interval after the timestamp the previous grant for the domain
\* carried, which its caller read before its own check ran.
C15_GrantAfterTimestamp ==
    OneWorker =>
        \A i, j \in 1..Len(grants) :
            i < j =>
                /\ grants[j].now >= grants[i].at
                /\ grants[i].domain = grants[j].domain =>
                      grants[j].at - grants[i].now >= rate_limiter.min_interval

C15_Witness ==
    /\ OneWorker
    /\ Len(grants) = 2
    /\ grants[1].domain = grants[2].domain
    /\ grants[1].at > grants[1].now
    /\ grants[2].at - grants[1].at < rate_limiter.min_interval

\* C16 (as claimed): whichever workers call acquire, the checks that grant
\* two calls for the same domain run at least min_interval apart.
C16_AnyGrantsApart ==
    \A i, j \in 1..Len(grants) :
        i < j /\ grants[i].domain = grants[j].domain =>
            grants[j].at - grants[i].at >= rate_limiter.min_interval

\* C16 (amended): whichever workers call acquire, the check that grants a
\* call runs at least min_interval after the timestamp of every earlier
\* grant for the domain; between the checks themselves less time can pass,
\* by as much as the earlier caller waited for its check.
C16_AnyGrantAfterTimestamp ==
    \A i, j \in 1..Len(grants) :
        i < j /\ grants[i].domain = grants[j].domain =>
            grants[j].at - grants[i].now >= rate_limiter.min_interval

C16_Witness ==
    /\ Len(grants) = 2
    /\ grants[1].worker # grants[2].worker
    /\ grants[1].domain = grants[2].domain
    /\ grants[1].at = grants[2].at
    /\ rate_limiter.min_interval = 2

\* C17: a check for one domain leaves the key of every other domain as it
\* was, and whether it grants depends on nothing but the key of its own
\* domain and the caller's timestamp.
C17_DomainsIndependent ==
    [][\A w \in WORKERS : CheckStep(w) =>
          LET d == acquiring[w].domain
              key == <<"rate_limit", d>>
          IN
          /\ \A d2 \in DOMAINS \ {d} :
                /\ <<"rate_limit", d2>> \in DOMAIN kv' <=> <<"rate_limit", d2>> \in DOMAIN kv
                /\ <<"rate_limit", d2>> \in DOMAIN kv =>
                      kv'[<<"rate_limit", d2>>] = kv[<<"rate_limit", d2>>]
          /\ acquiring'[w].pc = "idle" <=>
                \/ key \notin DOMAIN kv
                \/ acquiring[w].now - kv[key].value >= rate_limiter.min_interval]_vars

C17_Witness ==
    /\ Len(grants) = 2
    /\ grants[1].domain = "d1"
    /\ grants[2].domain = "d2"
    /\ grants[2].checks = 1
    /\ grants[2].now - grants[1].now < rate_limiter.min_interval
    /\ DOMAIN kv = {<<"rate_limit", "d1">>, <<"rate_limit", "d2">>}
    /\ kv[<<"rate_limit", "d1">>].value # kv[<<"rate_limit", "d2">>].value

\* C18: a check that finds no key for its domain, never written or expired,
\* grants: acquire returns without a sleep after it, and the key holds the
\* caller's timestamp and lives max(2, int(min_interval) + 1) seconds from
\* the check.
C18_AbsentKeyGrants ==
    [][\A w \in WORKERS :
          CheckStep(w) /\ <<"rate_limit", acquiring[w].domain>> \notin DOMAIN kv =>
              /\ acquiring'[w].pc = "idle"
              /\ Len(grants') = Len(grants) + 1
              /\ grants'[Len(grants')].worker = w
              /\ kv'[<<"rate_limit", acquiring[w].domain>>] =
                    [value |-> acquiring[w].now,
                     expires_at |-> clock + Max(2, rate_limiter.min_interval + 1)]]_vars

\* a call granted on an expired key: its timestamp is less than min_interval
\* after the previous grant's
C18_Witness ==
    /\ Len(grants) = 2
    /\ grants[1].domain = grants[2].domain
    /\ grants[2].now - grants[1].now < rate_limiter.min_interval
    /\ grants[2].at > grants[2].now
    /\ kv[<<"rate_limit", grants[2].domain>>].value = grants[2].now

\* C19: with requests_per_second = 0 every acquire call returns after its
\* first check: no call is ever denied and none sleeps.
C19_ZeroRateNeverWaits ==
    rate_limiter.min_interval = 0 =>
        /\ \A w \in WORKERS : acquiring[w].pc # "sleep" /\ acquiring[w].checks = 0
        /\ \A i \in 1..Len(grants) : grants[i].checks = 1

(***************************************************************************)
(* Properties of the scheduler                                             *)
(***************************************************************************)
\* a step of the scheduler's loop from the position p
SchedulerStepFrom(p) == scheduler.pc = p /\ scheduler'.pc # p

\* C20: an iteration that observes an output-queue length of at least
\* max_queue_size puts the popped URL back into the input queue and appends
\* nothing to the output queue: the pop took one URL from the input queue,
\* the size check changed no queue, and the last step makes the input queue
\* one longer again, by that URL, and leaves the output queue alone.
C20_BackpressureRequeues ==
    [][/\ SchedulerStepFrom("dequeue") /\ scheduler'.pc = "size" =>
             /\ Len(url_filter_output') = Len(url_filter_output) - 1
             /\ scheduler'.url \in {Head(url_filter_output),
                                    url_filter_output[Len(url_filter_output)]}
             /\ input_queue' = input_queue
       /\ SchedulerStepFrom("size") =>
             /\ scheduler'.current_size = Len(input_queue)
             /\ UNCHANGED <<url_filter_output, input_queue>>
       /\ SchedulerStepFrom("decide")
          /\ scheduler.current_size >= scheduler_config.max_queue_size =>
             /\ url_filter_output' \in {Append(url_filter_output, scheduler.url),
                                        <<scheduler.url>> \o url_filter_output}
             /\ input_queue' = input_queue
             /\ scheduler'.pc = "dequeue"]_vars

\* the URL was put back on an observed length that the crawler queue has
\* since fallen below
C20_Witness ==
    /\ scheduler.pc = "dequeue"
    /\ scheduler.url # NoUrl
    /\ scheduler.current_size >= scheduler_config.max_queue_size
    /\ scheduler.current_size = 2
    /\ Len(input_queue) < scheduler.current_size
    /\ Len(url_filter_output) = 2
    /\ scheduler.url \in {Head(url_filter_output), url_filter_output[2]}

\* C21: the URL that the scheduler puts back under backpressure is the next
\* item it dequeues, ahead of every item that was waiting in the input queue.
C21_PutBackIsNext ==
    [][SchedulerStepFrom("decide")
       /\ scheduler.current_size >= scheduler_config.max_queue_size =>
           Popped(url_filter_output') = scheduler.url]_vars

(***************************************************************************)
(* Properties of enqueue_seeds                                             *)
(***************************************************************************)
\* the number of seeds that fit: min(|seeds|, max(0, max_queue_size - L))
SeedsThatFit ==
    Min(Len(seeding.seeds),
        Max(0, scheduler_config.max_queue_size - Len(seeding.initial)))

\* C22: enqueue_seeds, run alone on a queue of length L, appends the first
\* n = min(|seeds|, max(0, max_queue_size - L)) seeds in their order to the
\* tail of the queue and returns n; it stops at the first seed for which
\* the length it reads has reached max_queue_size.
C22_SeedsUntilFull ==
    /\ input_queue = seeding.initial \o SubSeq(seeding.seeds, 1, seeding.enqueued)
    /\ seeding.enqueued <= SeedsThatFit
    /\ seeding.i = seeding.enqueued + 1
    /\ seeding.pc = "done" =>
          /\ seeding.enqueued = SeedsThatFit
          /\ SeedsThatFit < Len(seeding.seeds) =>
                /\ seeding.current >= scheduler_config.max_queue_size
                /\ seeding.current = Len(input_queue)

C22_Witness ==
    /\ seeding.pc = "done"
    /\ seeding.initial # <<>>
    /\ seeding.enqueued = 1
    /\ Len(seeding.seeds) = 3
    /\ Len(input_queue) = scheduler_config.max_queue_size


(***************************************************************************)
(* Properties of the fetch loop under transport failures                   *)
(***************************************************************************)
\* C23: a transport failure of a queue, cache or event-sink operation inside
\* an iteration does not end the worker; the worker leaves its loop only
\* when shutdown is requested
C23_TransportFailureNotFatal == pc \in {"stopped", "crashed"} => shutdown_requested

(***************************************************************************)
(* Properties of a successful fetch and of the robots gate                 *)
(***************************************************************************)
EventsHaveBodies == \A i \in 1..Len(webpage_log) : webpage_log[i] \in cache

ReturnsEvent == pc # "dispatch" /\ pc' = "dispatch" /\ result'.type = "webpage_fetched"

SendStep ==
    /\ pc = "send"
    /\ url \in cache
    /\ webpage_log' = Append(webpage_log, url)
    /\ ReturnsEvent

\* C25: every record on the event topic has its body in the cache; a record
\* is appended only by the send that ends a process call with a
\* WebpageEvent, it is the record of the call's URL and the body was
\* written before; a call that returns a WebpageEvent ends with that send
C25_OneEventAfterBody ==
    /\ []EventsHaveBodies
    /\ [][(webpage_log' # webpage_log => SendStep) /\ (ReturnsEvent => SendStep)]_vars

C25_Witness ==
    /\ pc = "dispatch"
    /\ result.type = "webpage_fetched"
    /\ webpage_log = <<url>>
    /\ url \in cache

SkippedAtDispatch == pc = "dispatch" /\ result.type = "skipped_robots"

\* C26: a process call that robots disallows returns SkippedRobots with no
\* rate-limit slot acquired, no GET issued, the webpage cache and the event
\* topic as they were; the driver's match then leaves the input queue, the
\* DLQ and the breaker as they were and goes to the next iteration
C26_SkippedIsDropped ==
    /\ [](SkippedAtDispatch => acquires = 0 /\ gets = <<>>)
    /\ [][(SkippedAtDispatch' /\ ~SkippedAtDispatch
              => pc = "process" /\ UNCHANGED <<cache, webpage_log, input_queue, dlq, circuit_breaker>>)
          /\ (SkippedAtDispatch /\ WorkerStep
              => pc' = "top" /\ UNCHANGED <<cache, webpage_log, input_queue, dlq, circuit_breaker>>)]_vars

C26_Witness ==
    /\ pc = "top"
    /\ result.type = "skipped_robots"
    /\ url # NoUrl
    /\ dlq = <<>>
    /\ webpage_log = <<>>
    /\ input_queue = <<>>


(***************************************************************************)
(* Properties of the scheduler under transport errors                      *)
(***************************************************************************)
SchedulerLoopStep ==
    /\ scheduler' # scheduler
    /\ scheduler'.shutdown_requested = scheduler.shutdown_requested

SchedulerSuccessors(p) ==
    CASE p = "dequeue" -> {"dequeue", "size", "sleep"} \cup
                          (IF scheduler.shutdown_requested THEN {"stopped"} ELSE {})
      [] p = "size" -> {"decide", "sleep"}
      [] p = "decide" -> {"dequeue", "sleep"}
      [] p = "sleep" -> {"dequeue"}
      [] OTHER -> {}

\* C24: whatever queue command raises, the scheduler does not leave its
\* loop: it is stopped only after shutdown was requested; a step of an
\* iteration ends in the command's normal successor or in the sleep of the
\* handler, and the sleep is followed by the loop condition of the next
\* iteration
C24_ErrorSleepsAndContinues ==
    /\ [](scheduler.pc = "stopped" => scheduler.shutdown_requested)
    /\ [](scheduler.pc = "sleep" => ENABLED SchedulerSleepOver)
    /\ [][SchedulerLoopStep => scheduler'.pc \in SchedulerSuccessors(scheduler.pc)]_vars

C24_Witness ==
    /\ scheduler.pc = "sleep"
    /\ scheduler.url # NoUrl
    /\ ~scheduler.shutdown_requested


(***************************************************************************)
(* Properties of RobotsChecker.is_allowed                                  *)
(***************************************************************************)
\* the body has a Disallow rule of the configured user agent matching path
Disallows(body, path) == \E rule \in body : IsPrefix(rule, path)

\* a step of worker w inside is_allowed
RobotsStep(w) == checking'[w] # checking[w]

Cached(domain) == RobotsKey(domain) \in DOMAIN kv

Returned(w, outcome, answer) ==
    /\ checking'[w].pc = "idle"
    /\ checking'[w].outcome = outcome
    /\ checking'[w].answer = answer

C27_Step(w) ==
    LET c == checking[w] IN
    /\ c.pc = "get" /\ Cached(c.domain) /\ Disallows(kv[RobotsKey(c.domain)].value, c.path)
          => Returned(w, "hit", FALSE)
    /\ c.pc = "get" /\ ~Cached(c.domain) /\ ~robots_checker.has_fetcher
          => Returned(w, "no_fetcher", TRUE) /\ kv' = kv
    /\ c.pc = "get" /\ ~Cached(c.domain) /\ robots_checker.has_fetcher
          => checking'[w].pc = "fetch" /\ kv' = kv
    /\ c.pc = "fetch" /\ checking'[w].pc = "idle"
          => Returned(w, "absent", TRUE) /\ kv' = kv

\* w is the only worker that has called is_allowed
LoneChecker(w) == \A v \in WORKERS \ {w} : checking[v] = RobotsIdle

C27_NothingCached ==
    \A w \in WORKERS :
        /\ LoneChecker(w)
        /\ checking[w].pc = "idle"
        /\ checking[w].outcome \in {"absent", "no_fetcher"}
        => ~Cached(checking[w].domain)

\* C27: a cache hit on a body that disallows the path is answered false; a
\* miss without a fetcher, and a miss whose fetch comes back absent, are
\* answered true with the cache unchanged, so that, no other process
\* writing, the domain is still not cached after the call; and a call that
\* misses invokes the fetcher
C27_DisallowAndPermissive ==
    /\ []C27_NothingCached
    /\ [][\A w \in WORKERS : RobotsStep(w) => C27_Step(w)]_vars

C27_Witness ==
    /\ checking["w1"].pc = "idle"
    /\ checking["w1"].outcome = "hit"
    /\ ~checking["w1"].answer
    /\ checking["w2"].pc = "idle"
    /\ checking["w2"].outcome = "absent"

\* worker w wrote the body of domain at fetched_at and its time to live
\* has not run out
OwnEntryLive(w, domain) ==
    /\ checking[w].fetched_at[domain] # Nil
    /\ clock < checking[w].fetched_at[domain] + robots_checker.cache_ttl

\* C28: after a worker has fetched and stored the body of a domain, each of
\* its calls for that domain that reads the cache before the entry's time
\* to live is over is a hit: it is answered by the cached body and the
\* fetcher is not invoked
C28_CachedAnswersLaterCalls ==
    [][\A w \in WORKERS :
          RobotsStep(w) /\ checking[w].pc = "get" /\ OwnEntryLive(w, checking[w].domain)
             => /\ Cached(checking[w].domain)
                /\ Returned(w, "hit", ~Disallows(kv[RobotsKey(checking[w].domain)].value,
                                                 checking[w].path))]_vars

C28_Witness ==
    \E w \in WORKERS :
        /\ checking[w].pc = "idle"
        /\ checking[w].outcome = "hit"
        /\ OwnEntryLive(w, checking[w].domain)
        /\ robots_calls = 2


(***************************************************************************)
(* Properties of the cooperative shutdown                                  *)
(***************************************************************************)
\* the iteration that ends with this step has dispatched what it popped
IterationEnds ==
    \/ pc = "check_probe" /\ input_queue' = input_queue
    \/ pc = "dispatch" /\ result.type = "webpage_fetched" /\ webpage_log # <<>>
          /\ webpage_log[Len(webpage_log)] = url
    \/ pc = "dispatch" /\ result.type = "skipped_robots"
    \/ pc = "dispatch" /\ result.type = "url_specific" /\ dlq' = Append(dlq, url)
    \/ pc = "requeued" /\ input_queue # <<>> /\ input_queue[Len(input_queue)] = url

ShutdownStep ==
    /\ (pc = "top" /\ shutdown_requested => pc' = "stopped")
    /\ (pc' = "stopped" => pc = "top" /\ shutdown_requested)
    /\ (pc # "top" /\ pc' = "top" => IterationEnds)
    /\ (pc = "top" => input_queue' = input_queue)

\* the number of steps the worker can still take before it has stopped,
\* at most, when it finds shutdown requested at the top of the loop
ShutdownRank ==
    CASE pc = "stopped" -> 0
      [] pc = "top" -> 1
      [] pc = "requeued" -> 2
      [] pc = "dispatch" -> 3
      [] pc = "send" -> 4
      [] pc = "cache_set" -> 5
      [] pc = "attempt" -> 6 + fetcher.max_retries - attempt
      [] pc = "process" -> 7 + fetcher.max_retries
      [] pc = "check_probe" -> 8 + fetcher.max_retries

\* C29: with shutdown requested the step at the top of the loop leaves the
\* loop and pops nothing; the loop is left only there, and the top is only
\* reached by an iteration that popped nothing or dispatched the outcome for
\* the URL it popped (event sent, dropped, re-enqueued or on the DLQ); the
\* worker stops: until it has stopped it always has a next step, and after
\* the request every step of it brings it closer to the stop
C29_ShutdownCompletesIteration ==
    /\ [](pc # "stopped" => ENABLED WorkerNext)
    /\ [][WorkerStep => ShutdownStep]_vars
    /\ [][WorkerStep /\ shutdown_requested => ShutdownRank' < ShutdownRank]_vars

C29_Witness ==
    /\ pc = "stopped"
    /\ shutdown_requested
    /\ result.type = "url_specific"
    /\ dlq = <<url>>


(***************************************************************************)
(* Properties of concurrent workers                                        *)
(***************************************************************************)
\* C30: whatever the number of workers and their interleaving, the topic
\* never holds more events for a URL than the number of times that URL was
\* popped from the input queue, so a second event for a URL needs a second
\* pop of it
C30_EventsAtMostDequeues ==
    \A u \in URLS : Count(webpage_log, u) <= dequeues[u]

C30_Witness ==
    /\ webpage_log = <<"u1", "u1">>
    /\ dequeues["u1"] = 2
    /\ \A w \in WORKERS : workers[w].url = "u1" /\ workers[w].pc = "dispatch"


(***************************************************************************)
(* Properties of the breaker under the fetch loop                          *)
(***************************************************************************)
InsideIteration == pc \in {"process", "attempt", "cache_set", "send", "dispatch", "requeued"}

PopStep == pc = "check_probe" /\ pc' = "process"

\* C33: the worker pops a URL only with the breaker closed, and the breaker
\* is closed all through process and the match; while the breaker is open
\* or half_open the worker is at the loop condition, in wait_if_open or at
\* the probe, and its step from the probe check is the probe: it pops nothing
C33_DequeueOnlyWhenClosed ==
    /\ [](InsideIteration => circuit_breaker.state = "closed")
    /\ [][(PopStep => circuit_breaker.state = "closed")
          /\ (WorkerStep /\ pc = "check_probe" /\ circuit_breaker.state # "closed"
                 => pc' = "top" /\ UNCHANGED <<input_queue, url>>)]_vars

C33_Witness ==
    /\ pc = "top"
    /\ circuit_breaker.state = "open"
    /\ circuit_breaker.backoff_tier = 1
    /\ Len(input_queue) = 2

BreakerTransition(from, to) ==
    circuit_breaker.state = from /\ circuit_breaker'.state = to

\* C34: in the fetch loop the breaker's state changes only from closed to
\* open in the record_site_wide_failure after a re-enqueue, with the counter
\* at the threshold or above; from open to half_open in wait_if_open at the
\* top of the loop; and from half_open to closed or to open in the probe
\* branch
C34_TransitionsOfTheLoop ==
    [][circuit_breaker'.state # circuit_breaker.state =>
          \/ /\ BreakerTransition("closed", "open")
             /\ pc = "requeued"
             /\ circuit_breaker'.consecutive_failures >= circuit_breaker.failure_threshold
          \/ BreakerTransition("open", "half_open") /\ pc = "top"
          \/ BreakerTransition("half_open", "closed") /\ pc = "check_probe"
          \/ BreakerTransition("half_open", "open") /\ pc = "check_probe"]_vars

C34_Witness ==
    /\ circuit_breaker.state = "open"
    /\ circuit_breaker.backoff_tier = 2
    /\ pc = "top"

\* C40: current_backoff is at most max_backoff in every state of the
\* breaker, and so is every duration wait_if_open has slept
C40_BackoffCapped ==
    /\ circuit_breaker.current_backoff <= circuit_breaker.max_backoff
    /\ \A i \in 1..Len(backoff_sleeps) : backoff_sleeps[i] <= circuit_breaker.max_backoff


(***************************************************************************)
(* Properties of the GETs of one process call and of a URL that always     *)
(* answers with a 5xx status                                               *)
(***************************************************************************)
IssuesGet == gets' # gets /\ gets' # <<>>

\* C38: a GET is issued only inside the attempt loop, which a call enters
\* only past the robots gate with the answer allowed, holding the one grant
\* acquired before the loop; the number of grants of a call changes only
\* at its start and is still 1 after every GET
C38_GetAfterRobotsAndOneGrant ==
    /\ [](gets # <<>> => acquires = 1)
    /\ [](pc = "attempt" => acquires = 1 /\ result.type # "skipped_robots")
    /\ [][(IssuesGet => pc = "attempt" /\ acquires = 1 /\ acquires' = 1)
          /\ (acquires' # acquires => pc = "process")]_vars

C38_Witness ==
    /\ pc = "dispatch"
    /\ Len(gets) = 1
    /\ acquires = 1
    /\ result.type = "site_wide"

\* C36: the URL whose every GET is answered with a 5xx status eventually
\* is on the DLQ
C36_ReachesDlq == <>(dlq # <<>>)


(***************************************************************************)
(* Properties of the time to live of the rate-limit key                    *)
(***************************************************************************)
MaxRateTerm == 4

\* for the rate num/den the TTL of the constructor, times num, exceeds den:
\* the TTL is greater than 1/r = den/num also when 1/r is no whole number
TtlExceedsInterval ==
    \A num, den \in 1..MaxRateTerm :
        RateLimiter([num |-> num, den |-> den], 1).ttl * num > den

\* the check of worker w grants on a key that is not there
GrantOnAbsentKey(w) ==
    /\ CheckStep(w)
    /\ RateLimitKey(acquiring[w].domain) \notin DOMAIN kv
    /\ Len(grants') = Len(grants) + 1

\* C39: for a rate above 0 the TTL of the key is greater than min_interval;
\* a check that grants because the key is gone runs at least a TTL, hence
\* more than min_interval, after the check of every earlier grant for the
\* domain and after the timestamp that grant carried
C39_TtlOutlastsInterval ==
    /\ [](TtlExceedsInterval /\ rate_limiter.ttl > rate_limiter.min_interval)
    /\ [][\A w \in WORKERS : GrantOnAbsentKey(w) =>
             \A i \in 1..Len(grants) :
                 grants[i].domain = acquiring[w].domain =>
                     /\ clock - grants[i].at >= rate_limiter.ttl
                     /\ clock - grants[i].at > rate_limiter.min_interval
                     /\ clock - grants[i].now > rate_limiter.min_interval]_vars

C39_Witness ==
    /\ Len(grants) = 2
    /\ grants[1].domain = grants[2].domain
    /\ rate_limiter.min_interval = 2
    /\ grants[2].now - grants[1].now < 2
    /\ grants[2].at - grants[1].at = rate_limiter.ttl


(***************************************************************************)
(* Properties of RedisQueue                                                *)
(***************************************************************************)
Enqueues(n) == {i \in 1..n : calls[i].name = "enqueue"}

Dequeues(n) == {i \in 1..n : calls[i].name = "dequeue" /\ calls[i].item # NoUrl}

\* the items of the calls whose indices are in S, in the order of the calls
RECURSIVE ItemsOf(_, _)
ItemsOf(S, n) ==
    IF n = 0 THEN <<>>
    ELSE IF n \in S THEN Append(ItemsOf(S, n - 1), calls[n].item)
         ELSE ItemsOf(S, n - 1)

QueueStep ==
    LET last == calls'[Len(calls')] IN
    CASE last.name = "enqueue" -> input_queue' = Append(input_queue, last.item)
      [] last.name = "dequeue" ->
            IF input_queue = <<>>
            THEN last.item = NoUrl /\ input_queue' = input_queue
            ELSE last.item = Head(input_queue) /\ input_queue' = Tail(input_queue)
      [] last.name = "size" ->
            /\ input_queue' = input_queue
            /\ last.n = Cardinality(Enqueues(Len(calls))) - Cardinality(Dequeues(Len(calls)))

\* C32: an enqueue appends its item at the tail; a dequeue returns and
\* removes the head, or returns absent and changes nothing when the queue
\* is empty; size returns the number of enqueues minus the number of
\* dequeues that returned an item; and the items dequeued so far followed by
\* the queue's contents are the items enqueued so far, in that order, so one
\* consumer receives one producer's items in the order of their enqueues
C32_QueueIsFifo ==
    /\ [](ItemsOf(Enqueues(Len(calls)), Len(calls))
             = ItemsOf(Dequeues(Len(calls)), Len(calls)) \o input_queue)
    /\ [][calls' # calls => QueueStep]_vars

C32_Witness ==
    /\ Len(calls) = 6
    /\ calls[1] = [name |-> "enqueue", item |-> "u1", n |-> 0]
    /\ calls[2] = [name |-> "enqueue", item |-> "u2", n |-> 0]
    /\ calls[3] = [name |-> "size", item |-> NoUrl, n |-> 2]
    /\ calls[4] = [name |-> "dequeue", item |-> "u1", n |-> 0]
    /\ calls[5] = [name |-> "dequeue", item |-> "u2", n |-> 1]
    /\ calls[6] = [name |-> "dequeue", item |-> NoUrl, n |-> 0]


(***************************************************************************)
(* Properties of the scheduler loop under transport errors                 *)
(***************************************************************************)
\* the scheduler has popped a URL and has neither pushed it nor given it up
HoldsPopped == scheduler.pc \in {"size", "decide"}

\* the copies of the held URL in the two queues together
CopiesOfHeld(inq, outq) == Count(inq, scheduler.url) + Count(outq, scheduler.url)

\* C37: the step on which the scheduler stops holding a popped URL (the
\* push, the put-back, or the caught error, after which the iteration only
\* sleeps) adds that URL to the output queue or to the input queue
C37_PoppedUrlNotLost ==
    [][HoldsPopped /\ ~HoldsPopped'
         => CopiesOfHeld(url_filter_output', input_queue')
              = CopiesOfHeld(url_filter_output, input_queue) + 1]_vars


(***************************************************************************)
(* Properties of the crawler queue with all its writers                    *)
(***************************************************************************)
\* C35: started at or below max_queue_size, the crawler queue is never
\* longer than max_queue_size, whatever the interleaving of the scheduler's
\* reads of the length and pushes with the workers' pops and re-enqueues
C35_QueueNeverExceedsMax == Len(input_queue) <= scheduler_config.max_queue_size


(***************************************************************************)
(* Properties of repeated fetches of a page                                *)
(***************************************************************************)
\* the fields of an event other than fetched_at that C31 names
StableFields(e) == <<e.cache_key, e.content_length, e.content_hash>>

\* C31: two fetches of the same URL, the site answering with the same text,
\* write the same body under the same cache key and send events with the
\* same cache_key, content_length and content_hash under the same message key
C31_RefetchIsIdempotent ==
    \A i, j \in 1..Len(sent) :
        sent[i].event.url = sent[j].event.url
          => /\ cache_writes[i] = cache_writes[j]
             /\ StableFields(sent[i].event) = StableFields(sent[j].event)
             /\ sent[i].key = sent[j].key

\* a page with a non-ASCII character fetched twice at different times, and
\* another page fetched between the two
C31_Witness ==
    /\ Len(sent) = 3
    /\ sent[1].event.url = sent[3].event.url
    /\ sent[2].event.url # sent[1].event.url
    /\ sent[1].event.fetched_at # sent[3].event.fetched_at
    /\ sent[1].event.content_length > Len(cache_writes[1].body)
    /\ cache_writes[2] # cache_writes[1]

====
